---- MODULE Spec2Model ----
(***************************************************************************)
(* Embeddings generator: the document walk, the sectioning of MDX, and the *)
(* two reconcilers (Drizzle: generateEmbeddings; Prisma: run) that sync    *)
(* the discovered documents with the persisted store.                      *)
(*                                                                         *)
(* Texts the program inspects character by character (paths, headings,     *)
(* slugs, section contents) are sequences of one-character strings.  Raw   *)
(* file contents, which the program only hashes and hands to the markdown  *)
(* parser, are TLA+ strings.                                               *)
(***************************************************************************)
EXTENDS Integers, Sequences, FiniteSets, Bags, TLC

\* JavaScript's undefined (an absent property) and SQL's NULL.  Neither is a
\* text: every element of a text is a one-character string.
undefined == <<"undefined">>
NULL == <<"NULL">>
\* A file that does not exist.
Absent == "<absent>"

(***************************************************************************)
(* Bounds of the model                                                     *)
(***************************************************************************)
\* Passes (runs of the action) in one behaviour.
MaxPasses == 3
\* Edits of the content directory between passes in one behaviour.
MaxEdits == 1
\* Store or gateway faults (connectivity, request failure) in one behaviour.
MaxFaults == 1

(***************************************************************************)
(* Texts                                                                   *)
(***************************************************************************)
RECURSIVE Flatten(_)
Flatten(ss) == IF ss = <<>> THEN <<>> ELSE Head(ss) \o Flatten(Tail(ss))

EndsWith(s, suffix) ==
    /\ Len(s) >= Len(suffix)
    /\ SubSeq(s, Len(s) - Len(suffix) + 1, Len(s)) = suffix

\* The characters of the model's paths in the order of the ICU root
\* collation, which String.prototype.localeCompare uses: punctuation
\* ("-" < "." < "/") before digits before letters.
CollationOrder ==
    <<"-", ".", "/", "0", "4", "a", "b", "d", "e", "f", "g", "i", "m", "n", "p", "s", "t", "u", "x">>

Weight(c) == CHOOSE k \in 1..Len(CollationOrder) : CollationOrder[k] = c

\* a.localeCompare(b): negative, zero or positive.
RECURSIVE localeCompare(_, _)
localeCompare(a, b) ==
    IF a = <<>> /\ b = <<>> THEN 0
    ELSE IF a = <<>> THEN -1
    ELSE IF b = <<>> THEN 1
    ELSE IF Weight(Head(a)) < Weight(Head(b)) THEN -1
    ELSE IF Weight(Head(a)) > Weight(Head(b)) THEN 1
    ELSE localeCompare(Tail(a), Tail(b))

(***************************************************************************)
(* path: join, basename, dirname                                           *)
(***************************************************************************)
LastSlash(p) ==
    LET at == {k \in 1..Len(p) : p[k] = "/"}
    IN IF at = {} THEN 0 ELSE CHOOSE k \in at : \A l \in at : l <= k

join(directory, file) == directory \o <<"/">> \o file

basename(p) == SubSeq(p, LastSlash(p) + 1, Len(p))

dirname(p) == IF LastSlash(p) = 0 THEN <<".">> ELSE SubSeq(p, 1, LastSlash(p) - 1)

(***************************************************************************)
(* The content directory                                                   *)
(***************************************************************************)
Pages == <<"p", "a", "g", "e", "s">>
MdxExt == <<".", "m", "d", "x">>

\* pages/404.mdx, pages/404/x.mdx, pages/g.mdx, pages/g/u.mdx
Path404 == join(Pages, <<"4", "0", "4">> \o MdxExt)
Path404x == join(join(Pages, <<"4", "0", "4">>), <<"x">> \o MdxExt)
PathG == join(Pages, <<"g">> \o MdxExt)
PathGU == join(join(Pages, <<"g">>), <<"u">> \o MdxExt)

\* The files a content directory of the model may hold.
FilePaths == {PathG, PathGU, Path404, Path404x}

\* The files of the content directories that walk is checked on by itself:
\* pages/g.mdx, pages/g/u.mdx, pages/g/u/x.mdx, pages/g/a.md, pages/g/a/b.mdx,
\* pages/a.md, pages/a/b.mdx
MdExt == <<".", "m", "d">>
PathGUX == join(join(join(Pages, <<"g">>), <<"u">>), <<"x">> \o MdxExt)
PathGAmd == join(join(Pages, <<"g">>), <<"a">> \o MdExt)
PathGAB == join(join(join(Pages, <<"g">>), <<"a">>), <<"b">> \o MdxExt)
PathAmd == join(Pages, <<"a">> \o MdExt)
PathAB == join(join(Pages, <<"a">>), <<"b">> \o MdxExt)
WalkPaths == {PathG, PathGU, PathGUX, PathGAmd, PathGAB, PathAmd, PathAB}

\* A file system maps every path of FilePaths to the file's raw content, or
\* to Absent.  Its directories are the ones that hold a file.
ExistingFiles(fs) == {p \in DOMAIN fs : fs[p] # Absent}

Under(d, p) ==
    /\ Len(p) > Len(d) + 1
    /\ SubSeq(p, 1, Len(d)) = d
    /\ p[Len(d) + 1] = "/"

\* The name of the entry of directory d that path p (under d) goes through.
EntryName(d, p) ==
    LET rest == SubSeq(p, Len(d) + 2, Len(p))
        at == {k \in 1..Len(rest) : rest[k] = "/"}
        stop == IF at = {} THEN Len(rest) + 1 ELSE CHOOSE k \in at : \A l \in at : k <= l
    IN SubSeq(rest, 1, stop - 1)

isFile(fs, p) == p \in ExistingFiles(fs)
isDirectory(fs, p) == \E q \in ExistingFiles(fs) : Under(p, q)

\* An insertion that sorts by b.path.localeCompare(a.path): descending.
RECURSIVE InsertByPathDescending(_, _)
InsertByPathDescending(sorted, e) ==
    IF sorted = <<>> THEN <<e>>
    ELSE IF localeCompare(e.path, sorted[Len(sorted)].path) <= 0 THEN Append(sorted, e)
    ELSE Append(InsertByPathDescending(SubSeq(sorted, 1, Len(sorted) - 1), e), sorted[Len(sorted)])

\* Stable insertion sort of a sequence of {path, parentPath} by
\* a.path.localeCompare(b.path): Array.prototype.sort is stable.
RECURSIVE InsertByPath(_, _)
InsertByPath(sorted, e) ==
    IF sorted = <<>> THEN <<e>>
    ELSE IF localeCompare(sorted[Len(sorted)].path, e.path) <= 0 THEN Append(sorted, e)
    ELSE Append(InsertByPath(SubSeq(sorted, 1, Len(sorted) - 1), e), sorted[Len(sorted)])

\* walk without its final sort.
Unsorted(s) == s

RECURSIVE SortByPath(_)
SortByPath(s) ==
    IF s = <<>> THEN <<>>
    ELSE InsertByPath(SortByPath(SubSeq(s, 1, Len(s) - 1)), s[Len(s)])

\* A set of names as a sequence, in the order of their collation.
RECURSIVE NamesInOrder(_)
NamesInOrder(names) ==
    IF names = {} THEN <<>>
    ELSE LET n == CHOOSE m \in names : \A o \in names : localeCompare(m, o) <= 0
         IN <<n>> \o NamesInOrder(names \ {n})

\* readdir(directory): the names of the directory's entries.
readdir(fs, directory) ==
    NamesInOrder({EntryName(directory, p) : p \in {q \in ExistingFiles(fs) : Under(directory, q)}})

\* The orders in which readdir may list a directory: the order of the names,
\* or its reverse, rotated by a number of places.
MaxShift == 2
ListingOrders == {[reverse |-> r, shift |-> k] : r \in BOOLEAN, k \in 0..MaxShift}
OrderOfNames == [reverse |-> FALSE, shift |-> 0]

Listed(names, o) ==
    LET n == Len(names)
        k == IF n = 0 THEN 0 ELSE o.shift % n
        rotated == SubSeq(names, k + 1, n) \o SubSeq(names, 1, k)
    IN IF o.reverse THEN [j \in 1..n |-> rotated[n + 1 - j]] ELSE rotated

\* walk(directory, parentPath) when readdir lists every directory in order
\* o: every file under the directory with the parent document it inherits,
\* sorted by path.
RECURSIVE walkIn(_, _, _, _)
walkIn(fs, directory, parentPath, o) ==
    LET immediateFiles == Listed(readdir(fs, directory), o)
        visit(file) ==
            LET path == join(directory, file)
            IN IF isDirectory(fs, path)
               THEN LET docPath == basename(path) \o MdxExt
                        nextParentPath ==
                            IF \E k \in 1..Len(immediateFiles) : immediateFiles[k] = docPath
                            THEN join(dirname(path), docPath)
                            ELSE parentPath
                    IN walkIn(fs, path, nextParentPath, o)
               ELSE IF isFile(fs, path)
               THEN <<[path |-> path, parentPath |-> parentPath]>>
               ELSE <<>>
        recursiveFiles == [k \in 1..Len(immediateFiles) |-> visit(immediateFiles[k])]
    IN SortByPath(Flatten(recursiveFiles))

\* walk(directory, parentPath) as the reconcilers call it.
walk(fs, directory, parentPath) == walkIn(fs, directory, parentPath, OrderOfNames)

(***************************************************************************)
(* Markdown: the parsed tree, the sections, the slugs                      *)
(***************************************************************************)
Heading(text) == [type |-> "heading", text |-> text]
Paragraph(text) == [type |-> "paragraph", text |-> text]
Esm(text) == [type |-> "mdxjsEsm", text |-> text]

\* The raw contents a file of the model may have.
RawHello == "Hello"
RawUsage == "## Usage\nText"
RawUsageMore == "## Usage\nMore"
RawTwo == "## A\na\n\n## B\nb"
RawBroken == "<Tabs"

Contents == {RawHello, RawUsage, RawUsageMore, RawTwo, RawBroken}

\* The contents the model gives each file: the ignored page (never read) and
\* the page under it have one, pages/g.mdx has two revisions, a malformed one
\* and one without a heading, pages/g/u.mdx has one with two headings and one
\* without a heading.
Revisions(p) ==
    CASE p = Path404 -> {RawHello}
      [] p = Path404x -> {RawUsage}
      [] p = PathG -> {RawUsage, RawUsageMore, RawBroken, RawHello}
      [] p = PathGU -> {RawTwo, RawHello}

FileSystems == {fs \in [FilePaths -> Contents \cup {Absent}] :
                  \A p \in FilePaths : fs[p] \in Revisions(p) \cup {Absent}}

\* The content directories that walk is checked on by itself.
WalkFileSystems == [WalkPaths -> {RawHello, Absent}]

\* The root of a parsed tree with its top-level nodes, and the parser's
\* exception.
Root(children) == [throws |-> FALSE, children |-> children]
ParseError == [throws |-> TRUE, children |-> <<>>]

\* fromMarkdown(content, {mdxjs}): the MDX tree, or the parser's exception
\* for malformed MDX.
fromMarkdown(content) ==
    CASE content = RawHello -> Root(<<Paragraph(<<"H", "e", "l", "l", "o">>)>>)
      [] content = RawUsage ->
            Root(<<Heading(<<"U", "s", "a", "g", "e">>), Paragraph(<<"T", "e", "x", "t">>)>>)
      [] content = RawUsageMore ->
            Root(<<Heading(<<"U", "s", "a", "g", "e">>), Paragraph(<<"M", "o", "r", "e">>)>>)
      [] content = RawTwo ->
            Root(<<Heading(<<"A">>), Paragraph(<<"a">>), Heading(<<"B">>), Paragraph(<<"b">>)>>)
      [] content = RawBroken -> ParseError

\* createHash("sha256").update(content).digest("base64"): one digest per
\* content, different contents having different digests.
sha256(content) == <<"sha256", content>>

JsxTypes ==
    {"mdxjsEsm", "mdxJsxFlowElement", "mdxJsxTextElement", "mdxFlowExpression", "mdxTextExpression"}

\* splitTreeBy(tree, predicate) for the heading predicate: a new tree at the
\* first node and at every heading.
\* A split that begins a new tree at every node, whatever the predicate says.
splitTreeByEvery(children) == [k \in 1..Len(children) |-> <<children[k]>>]

RECURSIVE splitTreeBy(_)
splitTreeBy(children) ==
    IF children = <<>> THEN <<>>
    ELSE LET trees == splitTreeBy(SubSeq(children, 1, Len(children) - 1))
             node == children[Len(children)]
         IN IF trees = <<>> \/ node.type = "heading"
            THEN Append(trees, <<node>>)
            ELSE [trees EXCEPT ![Len(trees)] = Append(@, node)]

\* toMarkdown(tree): the nodes serialised, a blank line between two nodes.
NodeMarkdown(node) ==
    IF node.type = "heading" THEN <<"#", "#", " ">> \o node.text ELSE node.text

RECURSIVE toMarkdown(_)
toMarkdown(children) ==
    IF children = <<>> THEN <<>>
    ELSE IF Len(children) = 1 THEN NodeMarkdown(children[1]) \o <<"\n">>
    ELSE NodeMarkdown(children[1]) \o <<"\n", "\n">> \o toMarkdown(Tail(children))

\* The first match of /(.*) *\[#(.*)\]/: both groups greedy, so the anchor
\* opens at the last "[#" that a "]" follows and closes at the last "]".
parseHeading(heading) ==
    LET closes == {k \in 1..Len(heading) : heading[k] = "]"}
        close == IF closes = {} THEN 0 ELSE CHOOSE k \in closes : \A l \in closes : l <= k
        opens == {k \in 1..Len(heading) - 1 :
                    heading[k] = "[" /\ heading[k + 1] = "#" /\ k + 1 < close}
    IN IF opens = {}
       THEN [heading |-> heading, customAnchor |-> undefined]
       ELSE LET open == CHOOSE k \in opens : \A l \in opens : l <= k
            IN [heading |-> SubSeq(heading, 1, open - 1),
                customAnchor |-> SubSeq(heading, open + 2, close - 1)]

Upper == <<"A", "B", "H", "M", "T", "U">>
Lower == <<"a", "b", "h", "m", "t", "u">>
toLowerCase(c) ==
    IF \E k \in 1..Len(Upper) : Upper[k] = c
    THEN Lower[CHOOSE k \in 1..Len(Upper) : Upper[k] = c]
    ELSE c

IsAlnum(c) ==
    \/ \E k \in 1..Len(Upper) : Upper[k] = c \/ Lower[k] = c
    \/ c \in {"e", "g", "l", "o", "r", "s", "x", "0", "1", "4"}

\* GithubSlugger.slug of a fresh slugger: lower case, punctuation other than
\* "-" and "_" dropped, every space a hyphen.  A fresh slugger has seen no
\* slug, so it appends no counter.
RECURSIVE slug(_)
slug(value) ==
    IF value = <<>> THEN <<>>
    ELSE LET c == toLowerCase(Head(value))
         IN IF c = " " THEN <<"-">> \o slug(Tail(value))
            ELSE IF IsAlnum(c) \/ c \in {"-", "_"} THEN <<c>> \o slug(Tail(value))
            ELSE slug(Tail(value))

\* heading.replace(/[^a-zA-Z0-9 ]/g, "").replace(/ +/g, "-")
RECURSIVE Sanitize(_, _)
Sanitize(value, afterSpace) ==
    IF value = <<>> THEN <<>>
    ELSE IF Head(value) = " "
         THEN (IF afterSpace THEN <<>> ELSE <<"-">>) \o Sanitize(Tail(value), TRUE)
    ELSE IF IsAlnum(Head(value)) THEN <<Head(value)>> \o Sanitize(Tail(value), FALSE)
    ELSE Sanitize(Tail(value), afterSpace)

generateSlug(parsed) ==
    LET s == slug(IF parsed.customAnchor # undefined THEN parsed.customAnchor ELSE parsed.heading)
    IN IF s # <<>> THEN s ELSE Sanitize(parsed.heading, FALSE)

\* One section of processMdxForSearch from one tree of splitTreeBy.
SectionOf(sectionTree) ==
    LET firstNode == sectionTree[1]
        content == toMarkdown(sectionTree)
        rawHeading == IF firstNode.type = "heading" THEN firstNode.text ELSE undefined
    IN IF rawHeading = undefined \/ rawHeading = <<>>
       THEN [content |-> content, heading |-> undefined, slug |-> undefined]
       ELSE LET parsed == parseHeading(rawHeading)
            IN [content |-> content, heading |-> parsed.heading, slug |-> generateSlug(parsed)]

\* The sections of a parsed tree: the JSX nodes filtered out, the rest split
\* at the headings, one section from each part.
Sections(children) ==
    LET mdTree == SelectSeq(children, LAMBDA node : node.type \notin JsxTypes)
        sectionTrees == splitTreeBy(mdTree)
    IN [k \in 1..Len(sectionTrees) |-> SectionOf(sectionTrees[k])]

\* processMdxForSearch(content): the checksum and the sections, or the
\* parser's exception.
processMdxForSearch(content) ==
    LET mdxTree == fromMarkdown(content)
    IN IF mdxTree.throws THEN [throws |-> TRUE, checksum |-> sha256(content), sections |-> <<>>]
       ELSE [throws |-> FALSE,
             checksum |-> sha256(content),
             sections |-> Sections(mdxTree.children)]

(***************************************************************************)
(* The meta export                                                         *)
(***************************************************************************)
\* The values of the literals of the model as their source text, and what
\* is not a value.
JsUndefined == "undefined"
Truthy == {"'x'", "1", "true"}
Falsy == {"''", "0", "false", "null"}

\* A property `key: value` of an object expression: the key an identifier,
\* the value a literal or another expression (its value then unknown).
Property(name, valueType, value) ==
    [type |-> "Property",
     key |-> [type |-> "Identifier", name |-> name],
     value |-> [type |-> valueType, value |-> value]]
ObjectExpression(properties) == [type |-> "ObjectExpression", properties |-> properties]
\* export const meta = init
MetaExport(init) == [type |-> "mdxjsEsm", name |-> "meta", init |-> init]

\* getObjectFromExpression(node), over node.properties: the reduce, from the
\* left; `(literal && value) || undefined` is undefined for a value that is
\* not truthy.
RECURSIVE getObjectFromExpression(_)
getObjectFromExpression(properties) ==
    IF properties = <<>> THEN <<>>
    ELSE LET object == getObjectFromExpression(SubSeq(properties, 1, Len(properties) - 1))
             property == properties[Len(properties)]
             key == IF property.key.type = "Identifier" THEN property.key.name ELSE JsUndefined
             value == IF property.value.type = "Literal" /\ property.value.value \in Truthy
                      THEN property.value.value
                      ELSE JsUndefined
         IN IF property.type # "Property" \/ key = JsUndefined THEN object
            ELSE (key :> value) @@ object

\* extractMetaExport(mdxTree): the object of the first `meta` export, or
\* undefined.
extractMetaExport(children) ==
    LET found == {k \in 1..Len(children) :
                    children[k].type = "mdxjsEsm" /\ children[k].name = "meta"}
    IN IF found = {} THEN [defined |-> FALSE, object |-> <<>>]
       ELSE LET metaExportNode == children[CHOOSE k \in found : \A l \in found : k <= l]
            IN IF metaExportNode.init.type # "ObjectExpression"
               THEN [defined |-> FALSE, object |-> <<>>]
               ELSE [defined |-> TRUE,
                     object |-> getObjectFromExpression(metaExportNode.init.properties)]

\* meta && JSON.parse(JSON.stringify(meta)): JSON.stringify leaves out the
\* keys whose value is undefined.
serializableMeta(meta) ==
    IF ~meta.defined THEN meta
    ELSE [defined |-> TRUE,
          object |-> [k \in {j \in DOMAIN meta.object : meta.object[j] # JsUndefined}
                        |-> meta.object[k]]]

\* The object expressions the extraction is checked on by itself: up to
\* MaxProperties properties named a or b, each a literal or an identifier.
MaxProperties == 2
Properties ==
    {Property(name, "Literal", v) : name \in {"a", "b"}, v \in Truthy \cup Falsy}
        \cup {Property(name, "Identifier", "title") : name \in {"a", "b"}}
ObjectExpressions == {ObjectExpression(ps) : ps \in UNION {[1..n -> Properties] : n \in 1..MaxProperties}}

\* The trees processMdxForSearch is checked on by itself: up to MaxNodes
\* nodes, each a paragraph or a heading: "A", "B", "A [#b]", "A [#]",
\* "A [#b] U" and "" (an empty heading, `##`).
MaxNodes == 3
HeadingTexts ==
    {<<"A">>, <<"B">>, <<"A", " ", "[", "#", "b", "]">>, <<"A", " ", "[", "#", "]">>,
     <<"A", " ", "[", "#", "b", "]", " ", "U">>, <<>>}
Nodes == {Heading(h) : h \in HeadingTexts} \cup {Paragraph(<<"a">>)}
Trees == UNION {[1..n -> Nodes] : n \in 1..MaxNodes}

(***************************************************************************)
(* The discovered documents                                                *)
(***************************************************************************)
\* const ignoredFiles = ["pages/404.mdx"]
ignoredFiles == {Path404}

\* generateMarkdownSource(filePath, parentFilePath): the file read and
\* processed, or the exception of processMdxForSearch.
generateMarkdownSource(fs, filePath, parentFilePath) ==
    LET processed == processMdxForSearch(fs[filePath])
    IN [throws |-> processed.throws,
        path |-> filePath,
        checksum |-> processed.checksum,
        parent_document_path |-> parentFilePath,
        sections |-> processed.sections]

\* generateSources({docsRootPath, ignoredFiles}): the markdown sources of
\* the walked files, in the order of the walk.  Promise.all rejects when one
\* generateMarkdownSource rejects.
generateSources(fs, docsRootPath) ==
    LET walked == walk(fs, docsRootPath, undefined)
        isMarkdown(f) == EndsWith(f.path, <<".", "m", "d">>) \/ EndsWith(f.path, MdxExt)
        kept == SelectSeq(SelectSeq(walked, isMarkdown), LAMBDA f : f.path \notin ignoredFiles)
        loaded == [k \in 1..Len(kept) |-> generateMarkdownSource(fs, kept[k].path, kept[k].parentPath)]
    IN IF \E k \in 1..Len(loaded) : loaded[k].throws
       THEN [throws |-> TRUE, sources |-> <<>>]
       ELSE [throws |-> FALSE,
             sources |-> [k \in 1..Len(loaded) |->
                            [path |-> loaded[k].path,
                             checksum |-> loaded[k].checksum,
                             parent_document_path |-> loaded[k].parent_document_path,
                             sections |-> loaded[k].sections]]]

(***************************************************************************)
(* The embedding gateway                                                   *)
(***************************************************************************)
\* content.replace(/\n/g, " ")
ReplaceNewlines(content) == [k \in 1..Len(content) |-> IF content[k] = "\n" THEN " " ELSE content[k]]

\* embed({model, value}) when the request succeeds: the value, its vector
\* and the tokens used.  The gateway is deterministic in its input.
embed(input) ==
    [value |-> input, embedding |-> <<"embedding", input>>, usage |-> [tokens |-> Len(input)]]

(***************************************************************************)
(* The Drizzle store: documents and document_sections                      *)
(***************************************************************************)
\* uuid(): an id no row has.
uuid(rows) == CHOOSE n \in 1..(Cardinality(rows) + 1) :
                /\ \A r \in rows : r.id # n
                /\ \A m \in 1..(n - 1) : \E r \in rows : r.id = m

\* A value as the driver sends it: an undefined property is left to the
\* column's default, which is NULL for the columns of both tables.
SqlValue(v) == IF v = undefined THEN NULL ELSE v

\* The row of db.insert(documents).values({...currentSourceFile, id: uuid()}):
\* the source file has no version property.
DocumentValues(source, id) ==
    [id |-> id,
     path |-> source.path,
     checksum |-> source.checksum,
     parent_document_path |-> SqlValue(source.parent_document_path),
     version |-> NULL]

\* A documents table without the foreign key of parent_document_path.
DocumentsAcceptsUnreferenced(rows, row) ==
    \A d \in rows : d.id # row.id /\ d.path # row.path

\* documents: primary key id, path unique, parent_document_path references
\* documents.path.
DocumentsAccepts(rows, row) ==
    /\ \A d \in rows : d.id # row.id /\ d.path # row.path
    /\ \/ row.parent_document_path = NULL
       \/ \E d \in rows \cup {row} : d.path = row.parent_document_path

\* The row of db.insert(documentSections).values({...}).
SectionValues(document_id, section, embedded) ==
    [document_id |-> document_id,
     heading |-> SqlValue(section.heading),
     slug |-> SqlValue(section.slug),
     content |-> IF section.content # <<>> THEN section.content ELSE embedded.value,
     embedding |-> embedded.embedding,
     token_count |-> embedded.usage.tokens]

\* document_sections: every column NOT NULL, document_id references
\* documents.id.
SectionsAccepts(docs, row) ==
    /\ row.heading # NULL
    /\ row.slug # NULL
    /\ row.content # NULL
    /\ \E d \in docs : d.id = row.document_id

\* A comparison in which NULL is a value like any other: a row without a
\* version differs from every refresh version.
neNullIsValue(a, b) == a # b

\* ne(column, value): SQL's <>, which is not true when an operand is NULL.
ne(a, b) == a # NULL /\ b # NULL /\ a # b

\* Deleting the rows `gone` of documents violates a foreign key (ON DELETE
\* no action) when a remaining row references one of them.
DeleteDocumentsAccepted(docs, sections, gone) ==
    /\ \A s \in BagToSet(sections) : \A d \in gone : s.document_id # d.id
    /\ \A r \in docs \ gone : \A d \in gone : r.parent_document_path # d.path

\* The sections of a bag that are not those of document_id.
WithoutSectionsOf(sections, document_id) ==
    LET kept == {s \in BagToSet(sections) : s.document_id # document_id}
    IN [s \in kept |-> sections[s]]

VARIABLES
    files,             \* the content directory: path -> raw content or Absent
    documents,         \* table documents: a set of rows
    documentSections,  \* table document_sections: a bag of rows (ids left out)
    pc,                \* the statement the running pass is at; "idle" between passes
    shouldRefresh,     \* the pass's mode
    refreshVersion,    \* the pass's refresh version
    sourceFiles,       \* the pass's discovered documents
    idx,               \* the index of currentSourceFile in sourceFiles
    sec,               \* the index of the section the inner loop is at
    docId,             \* newDocument.id or foundDocument.id
    embedded,          \* the result of the last embed, until it is inserted
    class,             \* the branch taken for currentSourceFile
    outcome,           \* per document of this pass, in order: path, branch, error
    status,            \* of the last pass: "none", "running", "completed", "rejected"
    failed,            \* core.setFailed was called
    requests,          \* embedding requests of this pass
    writes,            \* section rows inserted or deleted by this pass
    succeeded,         \* the texts of the embedding requests that have succeeded
    previous,          \* the pass before this one: its sources, how it ended, the sections it left
    impl,              \* the reconciler that runs: "drizzle", "prisma" (part_001) or "part_002"
    File,              \* Prisma's table File: a set of rows
    Embedding,         \* Prisma's table Embedding: a set of rows
    isFileFound,       \* compareChecksum's answer for the current file
    isFileChanged,
    passes, edits, faults,
    called,            \* the argument of the last call of a function checked by itself
    returned           \* what that call returned

vars == <<files, documents, documentSections, pc, shouldRefresh, refreshVersion, sourceFiles,
          idx, sec, docId, embedded, class, outcome, status, failed, requests, writes,
          succeeded, previous, impl, File, Embedding, isFileFound, isFileChanged,
          passes, edits, faults, called, returned>>

\* What is fixed at start-up, and the record of the last isolated call.
fixed == <<impl, called, returned>>

\* The record of the isolated call: before it, and with the value it returned.
NotCalled == [done |-> FALSE, value |-> <<>>]
Returned(value) == [done |-> TRUE, value |-> value]
store == <<documents, documentSections>>
prismaStore == <<File, Embedding>>
locals == <<sec, docId, embedded, class>>
prismaLocals == <<isFileFound, isFileChanged>>
pass == <<shouldRefresh, refreshVersion, sourceFiles, previous>>
ghost == <<writes, succeeded>>
\* What no statement of generateEmbeddings changes.
outsideDrizzle == <<files, fixed, prismaStore, prismaLocals, passes, edits>>
\* What no statement of Prisma's run changes.
outsidePrisma == <<files, fixed, store, sec, docId, passes, edits>>

\* The persisted sections without their ids: each with the path of its
\* owner (document_sections), and the rows of Embedding.
PersistedSections ==
    IF impl = "drizzle"
    THEN {[path |-> (CHOOSE d \in documents : d.id = r.document_id).path,
           slug |-> r.slug, heading |-> r.heading, content |-> r.content,
           token_count |-> r.token_count, embedding |-> r.embedding,
           copies |-> documentSections[r]] : r \in BagToSet(documentSections)}
    ELSE Embedding

TypeOK ==
    /\ files \in FileSystems
    /\ pc \in {"idle", "select", "insertDocument", "embed", "insertSection", "selectParent",
               "updateDocument", "deleteSections", "cleanup", "deleteAllDocuments",
               "deleteAllSections", "refreshInsertDocument", "refreshEmbed",
               "refreshInsertSection", "compareChecksum", "touchFile", "createFile",
               "deleteEmbeddings", "embedSections", "updateFile", "createEmbeddings",
               "deleteMissingFiles", "deleteMissingEmbeddings", "deleteAllFiles",
               "deleteAllEmbeddings", "refreshEmbedSections", "refreshCreateFile",
               "refreshCreateEmbeddings"}
    /\ shouldRefresh \in BOOLEAN
    /\ failed \in BOOLEAN
    /\ status \in {"none", "running", "completed", "rejected"}
    /\ passes \in 0..MaxPasses /\ edits \in 0..MaxEdits /\ faults \in 0..MaxFaults

Init ==
    /\ files \in FileSystems
    /\ documents = {}
    /\ documentSections = EmptyBag
    /\ pc = "idle"
    /\ shouldRefresh = FALSE
    /\ refreshVersion = NULL
    /\ sourceFiles = <<>>
    /\ idx = 0 /\ sec = 0 /\ docId = 0
    /\ embedded = undefined
    /\ class = "none"
    /\ outcome = <<>>
    /\ status = "none"
    /\ failed = FALSE
    /\ requests = 0
    /\ writes = 0
    /\ succeeded = {}
    /\ previous = [clean |-> FALSE, refreshed |-> FALSE, sourceFiles |-> <<>>, sections |-> {}]
    /\ impl \in {"drizzle", "prisma"}
    /\ File = {}
    /\ Embedding = {}
    /\ isFileFound = FALSE
    /\ isFileChanged = "null"
    /\ passes = 0 /\ edits = 0 /\ faults = 0
    /\ called = undefined /\ returned = NotCalled

currentSourceFile == sourceFiles[idx]

\* A store or gateway call fails for a reason outside the model (connection,
\* rate limit): at most MaxFaults times in a behaviour.
Fault == faults < MaxFaults /\ faults' = faults + 1
NoFault == faults' = faults

\* The content directory changes between two passes.
EditFile ==
    /\ pc = "idle"
    /\ passes > 0
    /\ edits < MaxEdits
    /\ \E p \in FilePaths :
       \E c \in Revisions(p) \cup {Absent} :
         /\ files[p] # c
         /\ files' = [files EXCEPT ![p] = c]
    /\ edits' = edits + 1
    /\ UNCHANGED <<store, prismaStore, fixed, pc, pass, idx, locals, prismaLocals, outcome, status,
                   failed, requests, ghost, passes, faults>>

\* Control moves to a statement of the pass, inside the same source file.
Goto(label, k, id, result, branch) ==
    /\ pc' = label
    /\ sec' = k
    /\ docId' = id
    /\ embedded' = result
    /\ class' = branch
    /\ UNCHANGED <<idx, outcome, status, failed>>

\* An exception that leaves generateEmbeddings: run() catches it and calls
\* core.setFailed.
Rejected ==
    /\ pc' = "idle"
    /\ status' = "rejected"
    /\ failed' = TRUE
    /\ sec' = 0 /\ docId' = 0 /\ embedded' = undefined /\ class' = "none"
    /\ UNCHANGED <<idx, outcome>>

\* A loop without the try block around its body: the exception of one source
\* file leaves generateEmbeddings.
NextSourceFileUncaught(branch, error) ==
    IF error
    THEN Rejected
    ELSE /\ outcome' = Append(outcome, [path |-> currentSourceFile.path, class |-> branch, error |-> error])
         /\ idx' = idx + 1
         /\ pc' = IF idx < Len(sourceFiles) THEN "select" ELSE "cleanup"
         /\ sec' = 0 /\ docId' = 0 /\ embedded' = undefined /\ class' = "none"
         /\ UNCHANGED <<status, failed>>

\* A loop that goes to the cleanup after any source file, the last or not.
NextSourceFileSweepsEarly(branch, error) ==
    /\ outcome' = Append(outcome, [path |-> currentSourceFile.path, class |-> branch, error |-> error])
    /\ idx' = idx + 1
    /\ pc' = "cleanup"
    /\ sec' = 0 /\ docId' = 0 /\ embedded' = undefined /\ class' = "none"
    /\ UNCHANGED <<status, failed>>

\* The end of the try block for currentSourceFile, or its catch block
\* (error = TRUE), which logs: the loop goes on with the next source file
\* and, after the last one, with the cleanup.
NextSourceFile(branch, error) ==
    /\ outcome' = Append(outcome, [path |-> currentSourceFile.path, class |-> branch, error |-> error])
    /\ idx' = idx + 1
    /\ pc' = IF idx < Len(sourceFiles) THEN "select" ELSE "cleanup"
    /\ sec' = 0 /\ docId' = 0 /\ embedded' = undefined /\ class' = "none"
    /\ UNCHANGED <<status, failed>>

\* generateEmbeddings returns, and run() after it.
Completed ==
    /\ pc' = "idle"
    /\ status' = "completed"
    /\ sec' = 0 /\ docId' = 0 /\ embedded' = undefined /\ class' = "none"
    /\ UNCHANGED <<idx, outcome, failed>>

\* run() and generateEmbeddings up to the first store call: the refresh
\* version, the sources, the mode.
generateEmbeddings(refresh) ==
    /\ impl = "drizzle"
    /\ pc = "idle"
    /\ passes < MaxPasses
    /\ previous' = [clean |-> /\ status = "completed"
                              /\ ~shouldRefresh
                              /\ \A k \in 1..Len(outcome) : ~outcome[k].error,
                    refreshed |-> status = "completed" /\ shouldRefresh,
                    sourceFiles |-> sourceFiles,
                    sections |-> PersistedSections]
    /\ writes' = 0
    /\ passes' = passes + 1
    /\ refreshVersion' = <<"uuid", passes + 1>>
    /\ shouldRefresh' = refresh
    /\ requests' = 0
    /\ outcome' = <<>>
    /\ sec' = 0 /\ docId' = 0 /\ embedded' = undefined /\ class' = "none"
    /\ LET generated == generateSources(files, Pages)
       IN /\ sourceFiles' = generated.sources
          /\ IF generated.throws
             THEN /\ pc' = "idle"
                  /\ status' = "rejected"
                  /\ failed' = TRUE
                  /\ idx' = 0
             ELSE /\ status' = "running"
                  /\ failed' = FALSE
                  /\ idx' = 1
                  /\ pc' = IF refresh THEN "deleteAllDocuments"
                           ELSE IF generated.sources = <<>> THEN "cleanup" ELSE "select"
    /\ UNCHANGED <<files, fixed, store, prismaStore, prismaLocals, succeeded, edits, faults>>

(***************************************************************************)
(* generateEmbeddings, shouldRefresh = false: one source file              *)
(***************************************************************************)
\* db.select(...).from(documents).where(eq(documents.path, path)).limit(1)
\* and the branch on foundDocument.  parentDocument selects documents.id and
\* documents.path of the found row itself.
Select ==
    /\ pc = "select"
    /\ \/ /\ Fault
          /\ NextSourceFile("none", TRUE)
       \/ /\ NoFault
          /\ LET found == {d \in documents : d.path = currentSourceFile.path}
             IN IF found = {}
                THEN Goto("insertDocument", 0, 0, undefined, "Insert")
                ELSE LET foundDocument == CHOOSE d \in found : TRUE
                         parentDocument == [id |-> foundDocument.id, path |-> foundDocument.path]
                         isDocumentChanged == foundDocument.checksum # currentSourceFile.checksum
                         isParentPathChanged ==
                             parentDocument.path # currentSourceFile.parent_document_path
                     IN IF isDocumentChanged
                        THEN Goto("updateDocument", 0, foundDocument.id, undefined, "Changed")
                        ELSE IF ~isParentPathChanged
                        THEN NextSourceFile("Unchanged", FALSE)
                        ELSE Goto("selectParent", 0, foundDocument.id, undefined, "ParentOnly")
    /\ UNCHANGED <<outsideDrizzle, store, pass, requests, ghost>>

\* The inner loop goes to section k of currentSourceFile, or the try block
\* ends after the last section.
ToSection(k, id) ==
    IF k <= Len(currentSourceFile.sections)
    THEN Goto("embed", k, id, undefined, class)
    ELSE NextSourceFile(class, FALSE)

\* db.insert(documents).values({...currentSourceFile, id: uuid()}).returning()
InsertDocument ==
    /\ pc = "insertDocument"
    /\ LET row == DocumentValues(currentSourceFile, uuid(documents))
       IN \/ /\ Fault
             /\ NextSourceFile(class, TRUE)
             /\ UNCHANGED documents
          \/ /\ NoFault
             /\ IF DocumentsAccepts(documents, row)
                THEN /\ documents' = documents \cup {row}
                     /\ ToSection(1, row.id)
                ELSE /\ NextSourceFile(class, TRUE)
                     /\ UNCHANGED documents
    /\ UNCHANGED <<outsideDrizzle, documentSections, pass, requests, ghost>>

\* An embedding request whose failure is not noticed: the section is inserted
\* with a vector the gateway never returned.
EmbedUnnoticedFailure ==
    /\ pc = "embed"
    /\ requests' = requests + 1
    /\ LET input == ReplaceNewlines(currentSourceFile.sections[sec].content)
       IN \/ /\ Fault
             /\ UNCHANGED succeeded
             /\ Goto("insertSection", sec, docId, embed(input), class)
          \/ /\ NoFault
             /\ succeeded' = succeeded \cup {input}
             /\ Goto("insertSection", sec, docId, embed(input), class)
    /\ UNCHANGED <<outsideDrizzle, store, pass, writes>>

\* embed({model, value: section.content.replace(/\n/g, " ")})
Embed ==
    /\ pc = "embed"
    /\ requests' = requests + 1
    /\ LET input == ReplaceNewlines(currentSourceFile.sections[sec].content)
       IN \/ /\ Fault
             /\ NextSourceFile(class, TRUE)
             /\ UNCHANGED succeeded
          \/ /\ NoFault
             /\ succeeded' = succeeded \cup {input}
             /\ Goto("insertSection", sec, docId, embed(input), class)
    /\ UNCHANGED <<outsideDrizzle, store, pass, writes>>

\* db.insert(documentSections).values({id: uuid(), document_id, heading,
\* slug, content: content || value, embedding, token_count}).returning()
InsertSection ==
    /\ pc = "insertSection"
    /\ LET row == SectionValues(docId, currentSourceFile.sections[sec], embedded)
       IN \/ /\ Fault
             /\ NextSourceFile(class, TRUE)
             /\ UNCHANGED <<documentSections, writes>>
          \/ /\ NoFault
             /\ IF SectionsAccepts(documents, row)
                THEN /\ documentSections' = documentSections (+) SetToBag({row})
                     /\ writes' = writes + 1
                     /\ ToSection(sec + 1, docId)
                ELSE /\ NextSourceFile(class, TRUE)
                     /\ UNCHANGED <<documentSections, writes>>
    /\ UNCHANGED <<outsideDrizzle, documents, pass, requests, succeeded>>

\* The branch of isParentPathChanged: the parent document is selected by
\* currentSourceFile.parent_document_path || "", and nothing is written (the
\* update of parent_document_path is commented out).
SelectParent ==
    /\ pc = "selectParent"
    /\ \/ /\ Fault
          /\ NextSourceFile(class, TRUE)
       \/ /\ NoFault
          /\ NextSourceFile(class, FALSE)
    /\ UNCHANGED <<outsideDrizzle, store, pass, requests, ghost>>

\* db.update(documents).set({path: currentSourceFile.path})
\*   .where(eq(documents.id, foundDocument.id)).returning()
UpdateDocument ==
    /\ pc = "updateDocument"
    /\ \/ /\ Fault
          /\ NextSourceFile(class, TRUE)
          /\ UNCHANGED documents
       \/ /\ NoFault
          /\ documents' = {IF d.id = docId THEN [d EXCEPT !.path = currentSourceFile.path] ELSE d :
                             d \in documents}
          /\ Goto("deleteSections", 0, docId, undefined, class)
    /\ UNCHANGED <<outsideDrizzle, documentSections, pass, requests, ghost>>

\* db.delete(documentSections).where(eq(documentSections.document_id,
\* foundDocument.id)).returning()
DeleteSections ==
    /\ pc = "deleteSections"
    /\ \/ /\ Fault
          /\ NextSourceFile(class, TRUE)
          /\ UNCHANGED <<documentSections, writes>>
       \/ /\ NoFault
          /\ documentSections' = WithoutSectionsOf(documentSections, docId)
          /\ writes' = writes + BagCardinality(documentSections) - BagCardinality(documentSections')
          /\ ToSection(1, docId)
    /\ UNCHANGED <<outsideDrizzle, documents, pass, requests, succeeded>>

\* db.delete(documents).where(ne(documents.version, refreshVersion)), after
\* the loop and outside its try block.
Cleanup ==
    /\ pc = "cleanup"
    /\ LET gone == {d \in documents : ne(d.version, refreshVersion)}
       IN \/ /\ Fault
             /\ Rejected
             /\ UNCHANGED documents
          \/ /\ NoFault
             /\ IF DeleteDocumentsAccepted(documents, documentSections, gone)
                THEN /\ documents' = documents \ gone
                     /\ Completed
                ELSE /\ Rejected
                     /\ UNCHANGED documents
    /\ UNCHANGED <<outsideDrizzle, documentSections, pass, requests, ghost>>

(***************************************************************************)
(* generateEmbeddings, shouldRefresh = true                                *)
(***************************************************************************)
\* The loop of the refresh goes on with the next source file, or the pass
\* is over.
RefreshNextSourceFile ==
    /\ outcome' = Append(outcome, [path |-> currentSourceFile.path, class |-> "Insert", error |-> FALSE])
    /\ idx' = idx + 1
    /\ sec' = 0 /\ docId' = 0 /\ embedded' = undefined /\ class' = "none"
    /\ UNCHANGED failed
    /\ IF idx < Len(sourceFiles)
       THEN pc' = "refreshInsertDocument" /\ UNCHANGED status
       ELSE pc' = "idle" /\ status' = "completed"

RefreshToSection(k, id) ==
    IF k <= Len(currentSourceFile.sections)
    THEN Goto("refreshEmbed", k, id, undefined, "Insert")
    ELSE RefreshNextSourceFile

\* A refresh that goes to its loop without deleting the documents first.
DeleteAllDocumentsSkipped ==
    /\ pc = "deleteAllDocuments"
    /\ NoFault
    /\ IF sourceFiles = <<>>
       THEN Completed
       ELSE Goto("refreshInsertDocument", 0, 0, undefined, "Insert")
    /\ UNCHANGED <<outsideDrizzle, store, pass, requests, ghost>>

\* db.delete(documents).returning()
DeleteAllDocuments ==
    /\ pc = "deleteAllDocuments"
    /\ \/ /\ Fault
          /\ Rejected
          /\ UNCHANGED documents
       \/ /\ NoFault
          /\ IF DeleteDocumentsAccepted(documents, documentSections, documents)
             THEN /\ documents' = {}
                  /\ Goto("deleteAllSections", 0, 0, undefined, "none")
             ELSE /\ Rejected
                  /\ UNCHANGED documents
    /\ UNCHANGED <<outsideDrizzle, documentSections, pass, requests, ghost>>

\* db.delete(documentSections).returning()
DeleteAllSections ==
    /\ pc = "deleteAllSections"
    /\ \/ /\ Fault
          /\ Rejected
          /\ UNCHANGED <<documentSections, writes>>
       \/ /\ NoFault
          /\ documentSections' = EmptyBag
          /\ writes' = writes + BagCardinality(documentSections)
          /\ IF sourceFiles = <<>>
             THEN Completed
             ELSE Goto("refreshInsertDocument", 0, 0, undefined, "Insert")
    /\ UNCHANGED <<outsideDrizzle, documents, pass, requests, succeeded>>

\* db.insert(documents).values({...currentSourceFile, id: uuid()}).returning()
RefreshInsertDocument ==
    /\ pc = "refreshInsertDocument"
    /\ LET row == DocumentValues(currentSourceFile, uuid(documents))
       IN \/ /\ Fault
             /\ Rejected
             /\ UNCHANGED documents
          \/ /\ NoFault
             /\ IF DocumentsAccepts(documents, row)
                THEN /\ documents' = documents \cup {row}
                     /\ RefreshToSection(1, row.id)
                ELSE /\ Rejected
                     /\ UNCHANGED documents
    /\ UNCHANGED <<outsideDrizzle, documentSections, pass, requests, ghost>>

\* A refresh that treats a failed embedding request as the failure of one
\* source file and goes on with the next.
RefreshEmbedIsolated ==
    /\ pc = "refreshEmbed"
    /\ requests' = requests + 1
    /\ LET input == ReplaceNewlines(currentSourceFile.sections[sec].content)
       IN \/ /\ Fault
             /\ RefreshNextSourceFile
             /\ UNCHANGED succeeded
          \/ /\ NoFault
             /\ succeeded' = succeeded \cup {input}
             /\ Goto("refreshInsertSection", sec, docId, embed(input), class)
    /\ UNCHANGED <<outsideDrizzle, store, pass, writes>>

\* embed({model, value: section.content.replace(/\n/g, " ")})
RefreshEmbed ==
    /\ pc = "refreshEmbed"
    /\ requests' = requests + 1
    /\ LET input == ReplaceNewlines(currentSourceFile.sections[sec].content)
       IN \/ /\ Fault
             /\ Rejected
             /\ UNCHANGED succeeded
          \/ /\ NoFault
             /\ succeeded' = succeeded \cup {input}
             /\ Goto("refreshInsertSection", sec, docId, embed(input), class)
    /\ UNCHANGED <<outsideDrizzle, store, pass, writes>>

\* db.insert(documentSections).values({...}).returning()
RefreshInsertSection ==
    /\ pc = "refreshInsertSection"
    /\ LET row == SectionValues(docId, currentSourceFile.sections[sec], embedded)
       IN \/ /\ Fault
             /\ Rejected
             /\ UNCHANGED <<documentSections, writes>>
          \/ /\ NoFault
             /\ IF SectionsAccepts(documents, row)
                THEN /\ documentSections' = documentSections (+) SetToBag({row})
                     /\ writes' = writes + 1
                     /\ RefreshToSection(sec + 1, docId)
                ELSE /\ Rejected
                     /\ UNCHANGED <<documentSections, writes>>
    /\ UNCHANGED <<outsideDrizzle, documents, pass, requests, succeeded>>

(***************************************************************************)
(* The Prisma reconciler: run()                                            *)
(***************************************************************************)
\* generateMarkdownSources({docsRootPath, ignoredFiles}) of ./markdown: the
\* walked markdown files that are not ignored, each with its raw content,
\* checksum and sections; a file whose markup is malformed is skipped.
generateMarkdownSources(fs, docsRootPath) ==
    LET walked == walk(fs, docsRootPath, undefined)
        isMarkdown(f) == EndsWith(f.path, <<".", "m", "d">>) \/ EndsWith(f.path, MdxExt)
        kept == SelectSeq(SelectSeq(walked, isMarkdown), LAMBDA f : f.path \notin ignoredFiles)
        parsed == SelectSeq(kept, LAMBDA f : ~processMdxForSearch(fs[f.path]).throws)
    IN [k \in 1..Len(parsed) |->
          [path |-> parsed[k].path,
           content |-> fs[parsed[k].path],
           checksum |-> processMdxForSearch(fs[parsed[k].path]).checksum,
           sections |-> processMdxForSearch(fs[parsed[k].path]).sections]]

\* compareChecksum(filePath, hash) on the rows of File.
\* A comparison that takes every file it finds for unchanged.
compareChecksumFoundOnly(rows, filePath, hash) ==
    LET existing == {f \in rows : f.filePath = filePath}
    IN IF existing = {}
       THEN [isFileFound |-> FALSE, isFileChanged |-> "null", throws |-> FALSE]
       ELSE [isFileFound |-> TRUE, isFileChanged |-> "false", throws |-> FALSE]

compareChecksum(rows, filePath, hash) ==
    LET existing == {f \in rows : f.filePath = filePath}
        existingFile == CHOOSE f \in existing : TRUE
    IN IF existing = {}
       THEN [isFileFound |-> FALSE, isFileChanged |-> "null", throws |-> FALSE]
       ELSE IF existing # {} /\ existingFile.fileHash = hash
       THEN [isFileFound |-> TRUE, isFileChanged |-> "false", throws |-> FALSE]
       ELSE IF existing # {} /\ existingFile.fileHash # hash
       THEN [isFileFound |-> TRUE, isFileChanged |-> "true", throws |-> FALSE]
       \* throw new Error("An unexpected error occurred while comparing the checksum.")
       ELSE [isFileFound |-> FALSE, isFileChanged |-> "null", throws |-> TRUE]

\* The stores and the arguments compareChecksum is checked on by itself: a
\* row or none for each of two paths, each with one of three hashes.
CompareHashes == {sha256(RawHello), sha256(RawUsage), sha256(RawUsageMore)}
CompareRow(filePath, hash) ==
    [filePath |-> filePath, content |-> RawHello, fileHash |-> hash, tokens |-> 0,
     latestRefresh |-> 0, latestVersion |-> <<"uuid", 0>>]
CompareStores ==
    {rows \in SUBSET {CompareRow(q, h) : q \in {PathG, PathGU}, h \in CompareHashes} :
        \A f \in rows : \A g \in rows : f.filePath = g.filePath => f = g}
CompareCalls ==
    {[rows |-> rows, filePath |-> q, hash |-> h] :
        rows \in CompareStores, q \in {PathG, PathGU}, h \in CompareHashes}

\* (a, b) => a.slug.localeCompare(b.slug): an undefined b.slug is compared
\* as the text "undefined".
SlugText(section) ==
    IF section.slug = undefined
    THEN <<"u", "n", "d", "e", "f", "i", "n", "e", "d">>
    ELSE section.slug

RECURSIVE InsertBySlug(_, _)
InsertBySlug(sorted, a) ==
    IF sorted = <<>> THEN <<a>>
    ELSE IF localeCompare(a.slug, SlugText(sorted[Len(sorted)])) >= 0 THEN Append(sorted, a)
    ELSE Append(InsertBySlug(SubSeq(sorted, 1, Len(sorted) - 1), a), sorted[Len(sorted)])

RECURSIVE SortBySlug(_)
SortBySlug(sections) ==
    IF Len(sections) <= 1 THEN sections
    ELSE InsertBySlug(SortBySlug(SubSeq(sections, 1, Len(sections) - 1)), sections[Len(sections)])

\* sections.sort(...) calls the comparator with every element but the first
\* as a; a.slug.localeCompare throws a TypeError when a.slug is undefined.
SortThrows(sections) == \E k \in 2..Len(sections) : sections[k].slug = undefined

\* embedMany({values}) when the request succeeds.
embedMany(values) ==
    [embeddings |-> [k \in 1..Len(values) |-> <<"embedding", values[k]>>],
     usage |-> [tokens |-> Len(Flatten(values))]]

\* embedSections(sections) when the gateway answers: the requests it made
\* (each the list of its texts) and what it returned, or the TypeError of
\* the sort.
embedSections(sections) ==
    IF SortThrows(sections)
    THEN [throws |-> TRUE, requested |-> <<>>, embeddings |-> <<>>, tokens |-> 0,
          sections |-> <<>>]
    ELSE LET sectionsData == SortBySlug(sections)
             values == [k \in 1..Len(sectionsData) |-> sectionsData[k].content]
             result == embedMany(values)
         IN [throws |-> FALSE, requested |-> <<values>>, embeddings |-> result.embeddings,
             tokens |-> result.usage.tokens, sections |-> sectionsData]

\* The trees embedSections is checked on by itself: up to MaxNodes nodes,
\* each a paragraph or a heading "A", "B" or "" (an empty heading, `##`).
EmbedNodes == {Heading(<<"A">>), Heading(<<"B">>), Heading(<<>>), Paragraph(<<"a">>)}
EmbedTrees == UNION {[1..n -> EmbedNodes] : n \in 1..MaxNodes}

\* The rows of createMany with the chunks counted from one.
EmbeddingDataFromOne(filePath, result) ==
    [index \in 1..Len(result.embeddings) |->
        [filePath |-> filePath,
         chunkIndex |-> index,
         header |-> result.sections[index].heading,
         slug |-> result.sections[index].slug,
         content |-> result.sections[index].content,
         embedding |-> result.embeddings[index]]]

\* The rows of createMany: one per embedding.
EmbeddingData(filePath, result) ==
    [index \in 1..Len(result.embeddings) |->
        [filePath |-> filePath,
         chunkIndex |-> index - 1,
         header |-> result.sections[index].heading,
         slug |-> result.sections[index].slug,
         content |-> result.sections[index].content,
         embedding |-> result.embeddings[index]]]

\* The Embedding row of a createMany entry.
EmbeddingRow(data) ==
    [filePath |-> data.filePath, chunkIndex |-> data.chunkIndex,
     content |-> data.content, embedding |-> data.embedding]

\* prisma.embedding.createMany accepts the data: the model Embedding has no
\* field header or slug, so Prisma rejects an entry that defines one; and
\* (filePath, chunkIndex) is unique.
EmbeddingAccepts(rows, data) ==
    /\ \A k \in 1..Len(data) : data[k].header = undefined /\ data[k].slug = undefined
    /\ \A k \in 1..Len(data) : \A e \in rows :
          ~(e.filePath = data[k].filePath /\ e.chunkIndex = data[k].chunkIndex)

markdownFile == sourceFiles[idx]

PrismaGoto(label, result) ==
    /\ pc' = label
    /\ embedded' = result
    /\ UNCHANGED <<idx, outcome, status, failed, class, prismaLocals>>

\* The loop of run() goes on with the next file and, after the last one,
\* with the deletion of the missing files.
NextFile ==
    /\ outcome' = Append(outcome, [path |-> markdownFile.path, class |-> class, error |-> FALSE])
    /\ idx' = idx + 1
    /\ pc' = IF idx < Len(sourceFiles) THEN "compareChecksum" ELSE "deleteMissingFiles"
    /\ embedded' = undefined /\ class' = "none"
    /\ isFileFound' = FALSE /\ isFileChanged' = "null"
    /\ UNCHANGED <<status, failed>>

\* An exception anywhere in run(): its catch block calls core.setFailed.
PrismaRejected ==
    /\ pc' = "idle"
    /\ status' = "rejected"
    /\ failed' = TRUE
    /\ embedded' = undefined /\ class' = "none"
    /\ isFileFound' = FALSE /\ isFileChanged' = "null"
    /\ UNCHANGED <<idx, outcome>>

PrismaCompleted ==
    /\ pc' = "idle"
    /\ status' = "completed"
    /\ embedded' = undefined /\ class' = "none"
    /\ isFileFound' = FALSE /\ isFileChanged' = "null"
    /\ UNCHANGED <<idx, outcome, failed>>

\* run() up to the first store call.
run(refresh) ==
    /\ impl \in {"prisma", "part_002"}
    \* const shouldRefresh: boolean = false, in run() of part_002
    /\ impl = "part_002" => ~refresh
    /\ pc = "idle"
    /\ passes < MaxPasses
    /\ passes' = passes + 1
    /\ previous' = [clean |-> status = "completed" /\ ~shouldRefresh,
                    refreshed |-> status = "completed" /\ shouldRefresh,
                    sourceFiles |-> sourceFiles,
                    sections |-> PersistedSections]
    /\ refreshVersion' = <<"uuid", passes + 1>>
    /\ shouldRefresh' = refresh
    /\ requests' = 0
    /\ writes' = 0
    /\ outcome' = <<>>
    /\ sourceFiles' = generateMarkdownSources(files, Pages)
    /\ idx' = 1
    /\ status' = "running"
    /\ failed' = FALSE
    /\ pc' = IF refresh THEN "deleteAllFiles"
             ELSE IF sourceFiles' = <<>> THEN "deleteMissingFiles" ELSE "compareChecksum"
    /\ UNCHANGED <<files, fixed, store, prismaStore, locals, prismaLocals, succeeded, edits, faults>>

\* const {isFileFound, isFileChanged} = await compareChecksum(path, checksum)
CompareChecksum ==
    /\ pc = "compareChecksum"
    /\ \/ /\ Fault
          /\ PrismaRejected
       \/ /\ NoFault
          /\ LET compared == compareChecksum(File, markdownFile.path, markdownFile.checksum)
             IN IF compared.throws
                THEN PrismaRejected
                ELSE /\ isFileFound' = compared.isFileFound
                     /\ isFileChanged' = compared.isFileChanged
                     /\ class' = IF ~compared.isFileFound THEN "Insert"
                                 ELSE IF compared.isFileChanged = "true" THEN "Changed"
                                 ELSE "Unchanged"
                     /\ pc' = IF compared.isFileFound /\ compared.isFileChanged # "true"
                              THEN "touchFile"
                              ELSE IF ~compared.isFileFound THEN "createFile"
                              \* part_002 calls prisma.file.create for a changed file too
                              ELSE IF impl = "part_002" THEN "createFile"
                              ELSE "deleteEmbeddings"
                     /\ UNCHANGED <<idx, outcome, status, failed, embedded>>
    /\ UNCHANGED <<outsidePrisma, prismaStore, pass, requests, ghost>>

\* An update of the unchanged file that writes its token count too.
TouchFileResetsTokens ==
    /\ pc = "touchFile"
    /\ \/ /\ Fault
          /\ PrismaRejected
          /\ UNCHANGED File
       \/ /\ NoFault
          /\ IF \E f \in File : f.filePath = markdownFile.path
             THEN /\ File' = {IF f.filePath = markdownFile.path
                              THEN [f EXCEPT !.latestRefresh = passes,
                                             !.latestVersion = refreshVersion,
                                             !.tokens = 0]
                              ELSE f : f \in File}
                  /\ NextFile
             ELSE /\ PrismaRejected
                  /\ UNCHANGED File
    /\ UNCHANGED <<outsidePrisma, Embedding, pass, requests, ghost>>

\* prisma.file.update({where: {filePath}, data: {latestRefresh, latestVersion}})
TouchFile ==
    /\ pc = "touchFile"
    /\ \/ /\ Fault
          /\ PrismaRejected
          /\ UNCHANGED File
       \/ /\ NoFault
          /\ IF \E f \in File : f.filePath = markdownFile.path
             THEN /\ File' = {IF f.filePath = markdownFile.path
                              THEN [f EXCEPT !.latestRefresh = passes, !.latestVersion = refreshVersion]
                              ELSE f : f \in File}
                  /\ NextFile
             ELSE /\ PrismaRejected
                  /\ UNCHANGED File
    /\ UNCHANGED <<outsidePrisma, Embedding, pass, requests, ghost>>

\* if (!isFileFound) await prisma.file.create({data: {..., tokens: 0}})
CreateFile ==
    /\ pc = "createFile"
    /\ LET row == [filePath |-> markdownFile.path, content |-> markdownFile.content,
                   fileHash |-> markdownFile.checksum, tokens |-> 0,
                   latestRefresh |-> passes, latestVersion |-> refreshVersion]
       IN \/ /\ Fault
             /\ PrismaRejected
             /\ UNCHANGED File
          \/ /\ NoFault
             /\ IF \A f \in File : f.filePath # row.filePath
                THEN /\ File' = File \cup {row}
                     /\ PrismaGoto(IF isFileChanged = "true" THEN "deleteEmbeddings" ELSE "embedSections",
                                   undefined)
                ELSE /\ PrismaRejected
                     /\ UNCHANGED File
    /\ UNCHANGED <<outsidePrisma, Embedding, pass, requests, ghost>>

\* if (isFileChanged) await prisma.embedding.deleteMany({where: {filePath}})
DeleteEmbeddings ==
    /\ pc = "deleteEmbeddings"
    /\ \/ /\ Fault
          /\ PrismaRejected
          /\ UNCHANGED <<Embedding, writes>>
       \/ /\ NoFault
          /\ Embedding' = {e \in Embedding : e.filePath # markdownFile.path}
          /\ writes' = writes + Cardinality(Embedding) - Cardinality(Embedding')
          /\ PrismaGoto("embedSections", undefined)
    /\ UNCHANGED <<outsidePrisma, File, pass, requests, succeeded>>

\* The sort and the one embedMany request of embedSections(sections).
EmbedSectionsStep(next) ==
    LET sections == markdownFile.sections
        sectionsData == SortBySlug(sections)
        values == [k \in 1..Len(sectionsData) |-> sectionsData[k].content]
        result == embedMany(values)
    IN IF SortThrows(sections)
       THEN /\ NoFault
            /\ PrismaRejected
            /\ UNCHANGED <<requests, succeeded>>
       ELSE /\ requests' = requests + 1
            /\ \/ /\ Fault
                  /\ PrismaRejected
                  /\ UNCHANGED succeeded
               \/ /\ NoFault
                  /\ succeeded' = succeeded \cup {values[k] : k \in 1..Len(values)}
                  /\ PrismaGoto(next, [embeddings |-> result.embeddings,
                                       tokens |-> result.usage.tokens,
                                       sections |-> sectionsData])

\* const {embeddings, tokens, sections} = await embedSections(markdownFile.sections)
EmbedSections ==
    /\ pc = "embedSections"
    /\ EmbedSectionsStep("updateFile")
    /\ UNCHANGED <<outsidePrisma, prismaStore, pass, writes>>

\* prisma.file.update({where: {filePath}, data: updatedFileData})
UpdateFile ==
    /\ pc = "updateFile"
    /\ \/ /\ Fault
          /\ PrismaRejected
          /\ UNCHANGED File
       \/ /\ NoFault
          /\ IF \E f \in File : f.filePath = markdownFile.path
             THEN /\ File' = {IF f.filePath = markdownFile.path
                              THEN [filePath |-> markdownFile.path,
                                    content |-> markdownFile.content,
                                    fileHash |-> markdownFile.checksum,
                                    tokens |-> embedded.tokens,
                                    latestRefresh |-> passes,
                                    latestVersion |-> refreshVersion]
                              ELSE f : f \in File}
                  /\ PrismaGoto("createEmbeddings", embedded)
             ELSE /\ PrismaRejected
                  /\ UNCHANGED File
    /\ UNCHANGED <<outsidePrisma, Embedding, pass, requests, ghost>>

\* prisma.embedding.createMany({data: newEmbeddingData})
CreateEmbeddings ==
    /\ pc = "createEmbeddings"
    /\ LET data == EmbeddingData(markdownFile.path, embedded)
       IN \/ /\ Fault
             /\ PrismaRejected
             /\ UNCHANGED <<Embedding, writes>>
          \/ /\ NoFault
             /\ IF EmbeddingAccepts(Embedding, data)
                THEN /\ Embedding' = Embedding \cup {EmbeddingRow(data[k]) : k \in 1..Len(data)}
                     /\ writes' = writes + Len(data)
                     /\ NextFile
                ELSE /\ PrismaRejected
                     /\ UNCHANGED <<Embedding, writes>>
    /\ UNCHANGED <<outsidePrisma, File, pass, requests, succeeded>>

\* The end of the incremental loop without the deletion of the missing
\* files.
DeleteMissingFilesKept ==
    /\ pc = "deleteMissingFiles"
    /\ \/ /\ Fault
          /\ PrismaRejected
       \/ /\ NoFault
          /\ pc' = "deleteMissingEmbeddings"
          /\ UNCHANGED <<idx, outcome, status, failed, embedded, class, prismaLocals>>
    /\ UNCHANGED <<outsidePrisma, File, Embedding, pass, requests, ghost>>

\* B. prisma.file.findMany() and prisma.file.deleteMany of the files whose
\* path no markdown file has.
DeleteMissingFiles ==
    /\ pc = "deleteMissingFiles"
    /\ \/ /\ Fault
          /\ PrismaRejected
          /\ UNCHANGED File
       \/ /\ NoFault
          /\ LET existingFilePaths == {f.filePath : f \in File}
                 missingFiles == {filePath \in existingFilePaths :
                                    ~\E k \in 1..Len(sourceFiles) : sourceFiles[k].path = filePath}
             IN File' = {f \in File : f.filePath \notin missingFiles}
          /\ pc' = "deleteMissingEmbeddings"
          /\ UNCHANGED <<idx, outcome, status, failed, embedded, class, prismaLocals>>
    /\ UNCHANGED <<outsidePrisma, Embedding, pass, requests, ghost>>

\* C. prisma.embedding.findMany() and prisma.embedding.deleteMany of the
\* embeddings whose path no markdown file has.
DeleteMissingEmbeddings ==
    /\ pc = "deleteMissingEmbeddings"
    /\ \/ /\ Fault
          /\ PrismaRejected
          /\ UNCHANGED <<Embedding, writes>>
       \/ /\ NoFault
          /\ LET existingEmbeddingPaths == {e.filePath : e \in Embedding}
                 missingEmbeddings == {filePath \in existingEmbeddingPaths :
                                         ~\E k \in 1..Len(sourceFiles) : sourceFiles[k].path = filePath}
             IN Embedding' = {e \in Embedding : e.filePath \notin missingEmbeddings}
          /\ writes' = writes + Cardinality(Embedding) - Cardinality(Embedding')
          /\ PrismaCompleted
    /\ UNCHANGED <<outsidePrisma, File, pass, requests, succeeded>>

\* A. prisma.file.deleteMany({})
DeleteAllFiles ==
    /\ pc = "deleteAllFiles"
    /\ \/ /\ Fault
          /\ PrismaRejected
          /\ UNCHANGED File
       \/ /\ NoFault
          /\ File' = {}
          /\ PrismaGoto("deleteAllEmbeddings", undefined)
    /\ UNCHANGED <<outsidePrisma, Embedding, pass, requests, ghost>>

\* B. prisma.embedding.deleteMany({})
DeleteAllEmbeddings ==
    /\ pc = "deleteAllEmbeddings"
    /\ \/ /\ Fault
          /\ PrismaRejected
          /\ UNCHANGED <<Embedding, writes>>
       \/ /\ NoFault
          /\ Embedding' = {}
          /\ writes' = writes + Cardinality(Embedding)
          /\ IF sourceFiles = <<>>
             THEN PrismaCompleted
             ELSE PrismaGoto("refreshEmbedSections", undefined)
    /\ UNCHANGED <<outsidePrisma, File, pass, requests, succeeded>>

\* C. const {embeddings, sections, tokens} = await embedSections(sections)
RefreshEmbedSections ==
    /\ pc = "refreshEmbedSections"
    /\ EmbedSectionsStep("refreshCreateFile")
    /\ UNCHANGED <<outsidePrisma, prismaStore, pass, writes>>

\* prisma.file.create({data: fileData})
RefreshCreateFile ==
    /\ pc = "refreshCreateFile"
    /\ LET row == [filePath |-> markdownFile.path, content |-> markdownFile.content,
                   fileHash |-> markdownFile.checksum, tokens |-> embedded.tokens,
                   latestRefresh |-> passes, latestVersion |-> refreshVersion]
       IN \/ /\ Fault
             /\ PrismaRejected
             /\ UNCHANGED File
          \/ /\ NoFault
             /\ IF \A f \in File : f.filePath # row.filePath
                THEN /\ File' = File \cup {row}
                     /\ PrismaGoto("refreshCreateEmbeddings", embedded)
                ELSE /\ PrismaRejected
                     /\ UNCHANGED File
    /\ UNCHANGED <<outsidePrisma, Embedding, pass, requests, ghost>>

\* prisma.embedding.createMany({data: embeddingData}), and the next file or
\* the end of run().
RefreshCreateEmbeddings ==
    /\ pc = "refreshCreateEmbeddings"
    /\ LET data == EmbeddingData(markdownFile.path, embedded)
       IN \/ /\ Fault
             /\ PrismaRejected
             /\ UNCHANGED <<Embedding, writes>>
          \/ /\ NoFault
             /\ IF EmbeddingAccepts(Embedding, data)
                THEN /\ Embedding' = Embedding \cup {EmbeddingRow(data[k]) : k \in 1..Len(data)}
                     /\ writes' = writes + Len(data)
                     /\ outcome' = Append(outcome, [path |-> markdownFile.path,
                                                    class |-> "Insert", error |-> FALSE])
                     /\ idx' = idx + 1
                     /\ embedded' = undefined
                     /\ UNCHANGED <<failed, class, prismaLocals>>
                     /\ IF idx < Len(sourceFiles)
                        THEN pc' = "refreshEmbedSections" /\ UNCHANGED status
                        ELSE pc' = "idle" /\ status' = "completed"
                ELSE /\ PrismaRejected
                     /\ UNCHANGED <<Embedding, writes>>
    /\ UNCHANGED <<outsidePrisma, File, pass, requests, succeeded>>

NextDrizzle ==
    \/ \E refresh \in BOOLEAN : generateEmbeddings(refresh)
    \/ Select
    \/ InsertDocument
    \/ Embed
    \/ InsertSection
    \/ SelectParent
    \/ UpdateDocument
    \/ DeleteSections
    \/ Cleanup
    \/ DeleteAllDocuments
    \/ DeleteAllSections
    \/ RefreshInsertDocument
    \/ RefreshEmbed
    \/ RefreshInsertSection

NextPrisma ==
    \/ \E refresh \in BOOLEAN : run(refresh)
    \/ CompareChecksum
    \/ TouchFile
    \/ CreateFile
    \/ DeleteEmbeddings
    \/ EmbedSections
    \/ UpdateFile
    \/ CreateEmbeddings
    \/ DeleteMissingFiles
    \/ DeleteMissingEmbeddings
    \/ DeleteAllFiles
    \/ DeleteAllEmbeddings
    \/ RefreshEmbedSections
    \/ RefreshCreateFile
    \/ RefreshCreateEmbeddings

Next == EditFile \/ NextDrizzle \/ NextPrisma

Spec == Init /\ [][Next]_vars

(***************************************************************************)
(* walk by itself: a content directory, one call of walk(docsRootPath)     *)
(***************************************************************************)
\* Everything but the record of the isolated call.
reconciler == <<files, documents, documentSections, pc, shouldRefresh, refreshVersion,
                sourceFiles, idx, sec, docId, embedded, class, outcome, status, failed,
                requests, writes, succeeded, previous, impl, File, Embedding, isFileFound,
                isFileChanged, passes, edits, faults>>

\* No pass has run.
Fresh ==
    /\ documents = {} /\ documentSections = EmptyBag /\ File = {} /\ Embedding = {}
    /\ pc = "idle" /\ shouldRefresh = FALSE /\ refreshVersion = NULL
    /\ sourceFiles = <<>> /\ idx = 0 /\ sec = 0 /\ docId = 0
    /\ embedded = undefined /\ class = "none" /\ outcome = <<>>
    /\ status = "none" /\ failed = FALSE
    /\ requests = 0 /\ writes = 0 /\ succeeded = {}
    /\ previous = [clean |-> FALSE, refreshed |-> FALSE, sourceFiles |-> <<>>, sections |-> {}]
    /\ isFileFound = FALSE /\ isFileChanged = "null"
    /\ passes = 0 /\ edits = 0 /\ faults = 0

InitWalk ==
    /\ files \in WalkFileSystems
    /\ impl = "drizzle"
    /\ Fresh
    /\ called = undefined /\ returned = NotCalled

\* walk(docsRootPath), readdir listing every directory in order o.
Walk(o) ==
    /\ called' = o
    /\ returned' = Returned(walkIn(files, Pages, undefined, o))
    /\ UNCHANGED reconciler

NextWalk == \E o \in ListingOrders : Walk(o)

SpecWalk == InitWalk /\ [][NextWalk]_vars

(***************************************************************************)
(* processMdxForSearch by itself: a parsed tree, its sections              *)
(***************************************************************************)
InitSections ==
    /\ files = [p \in FilePaths |-> Absent]
    /\ impl = "drizzle"
    /\ Fresh
    /\ called \in Trees /\ returned = NotCalled

\* The sections of processMdxForSearch for the tree that fromMarkdown gave.
ProcessTree ==
    /\ returned' = Returned(Sections(called))
    /\ UNCHANGED <<reconciler, called>>

NextSections == ProcessTree

SpecSections == InitSections /\ [][NextSections]_vars

(***************************************************************************)
(* The meta export by itself: `export const meta = {...}`, its record       *)
(***************************************************************************)
InitMeta ==
    /\ files = [p \in FilePaths |-> Absent]
    /\ impl = "drizzle"
    /\ Fresh
    /\ called \in ObjectExpressions /\ returned = NotCalled

\* meta and serializableMeta of processMdxForSearch for a document that
\* exports the object and has one paragraph.
ExtractMeta ==
    /\ returned' = Returned(serializableMeta(extractMetaExport(
                       <<MetaExport(called), Paragraph(<<"a">>)>>)))
    /\ UNCHANGED <<reconciler, called>>

NextMeta == ExtractMeta

SpecMeta == InitMeta /\ [][NextMeta]_vars

(***************************************************************************)
(* embedSections by itself: the sections of a parsed tree, the request     *)
(***************************************************************************)
InitEmbedSections ==
    /\ files = [p \in FilePaths |-> Absent]
    /\ impl = "prisma"
    /\ Fresh
    /\ called \in EmbedTrees /\ returned = NotCalled

\* embedSections(markdownFile.sections) for the sections of the tree.
EmbedSectionsOfTree ==
    /\ returned' = Returned(embedSections(Sections(called)))
    /\ UNCHANGED <<reconciler, called>>

NextEmbedSections == EmbedSectionsOfTree

SpecEmbedSections == InitEmbedSections /\ [][NextEmbedSections]_vars

(***************************************************************************)
(* run() of part_002: the Prisma reconciler that creates the File row of    *)
(* every file it does not find unchanged                                   *)
(***************************************************************************)
InitPart002 ==
    /\ files \in FileSystems
    /\ impl = "part_002"
    /\ Fresh
    /\ called = undefined /\ returned = NotCalled

\* The statements of run() that a run of part_002 reaches: its
\* shouldRefresh is false, and the deleteMany of a changed file follows a
\* create that has thrown.
NextPart002 ==
    \/ EditFile
    \/ run(FALSE)
    \/ CompareChecksum
    \/ TouchFile
    \/ CreateFile
    \/ EmbedSections
    \/ UpdateFile
    \/ CreateEmbeddings
    \/ DeleteMissingFiles
    \/ DeleteMissingEmbeddings

SpecPart002 == InitPart002 /\ [][NextPart002]_vars

(***************************************************************************)
(* compareChecksum by itself: a store, a path and a hash                   *)
(***************************************************************************)
InitCompareChecksum ==
    /\ files = [p \in FilePaths |-> Absent]
    /\ impl = "prisma"
    /\ Fresh
    /\ called \in CompareCalls /\ returned = NotCalled

\* compareChecksum(filePath, hash) against the rows of File.
CallCompareChecksum ==
    /\ returned' = Returned(compareChecksum(called.rows, called.filePath, called.hash))
    /\ UNCHANGED <<reconciler, called>>

NextCompareChecksum == CallCompareChecksum

SpecCompareChecksum == InitCompareChecksum /\ [][NextCompareChecksum]_vars

(***************************************************************************)
(* Properties                                                              *)
(***************************************************************************)
DrizzleIncremental == impl = "drizzle" /\ ~shouldRefresh /\ passes > 0
PrismaIncremental == impl = "prisma" /\ ~shouldRefresh /\ passes > 0

\* The paths of the discovered set of the pass.
DiscoveredPaths == {sourceFiles[k].path : k \in 1..Len(sourceFiles)}

\* The rows of document_sections that belong to the document id.
RowsOf(id) ==
    LET rows == {r \in BagToSet(documentSections) : r.document_id = id}
    IN [r \in rows |-> documentSections[r]]

\* The rows a successful regeneration of the sections of source gives the
\* document id.
RECURSIVE RegeneratedUpTo(_, _, _)
RegeneratedUpTo(id, sections, n) ==
    IF n = 0 THEN EmptyBag
    ELSE RegeneratedUpTo(id, sections, n - 1)
         (+) SetToBag({SectionValues(id, sections[n], embed(ReplaceNewlines(sections[n].content)))})

Regenerated(id, source) == RegeneratedUpTo(id, source.sections, Len(source.sections))

\* Every section of the source has what its table requires: a heading and a
\* slug in document_sections, neither of them in Embedding.
DrizzleStorable(source) ==
    \A k \in 1..Len(source.sections) :
        source.sections[k].heading # undefined /\ source.sections[k].slug # undefined
PrismaStorable(source) ==
    \A k \in 1..Len(source.sections) :
        source.sections[k].heading = undefined /\ source.sections[k].slug = undefined

\* The files of a content directory that generateSources reads and that
\* parse.
ParsableFiles(fs) ==
    {p \in ExistingFiles(fs) \ ignoredFiles : ~processMdxForSearch(fs[p]).throws}

\* C1: after an incremental pass of the Drizzle reconciler has completed, no
\* persisted document has a path that is absent from the discovered set (and
\* so no section of such a document is left).
C1_NoUndiscoveredDocument ==
    (DrizzleIncremental /\ status = "completed") =>
        \A d \in documents : d.path \in DiscoveredPaths

\* C2: a document classified Changed and processed without error carries the
\* discovered checksum, and its sections are exactly the regenerated ones.
C2_ChangedCarriesChecksum ==
    DrizzleIncremental =>
        \A k \in 1..Len(outcome) :
            (outcome[k].class = "Changed" /\ ~outcome[k].error) =>
                \E d \in documents :
                    /\ d.path = sourceFiles[k].path
                    /\ d.checksum = sourceFiles[k].checksum
                    /\ RowsOf(d.id) = Regenerated(d.id, sourceFiles[k])

\* C3: an incremental pass that immediately follows a clean incremental pass
\* over the same discovered set issues no embedding request and inserts or
\* deletes no section.
C3_SecondPassIsQuiet ==
    (DrizzleIncremental /\ status \in {"running", "completed"}
       /\ previous.clean /\ previous.sourceFiles = sourceFiles) =>
        requests = 0 /\ writes = 0

\* C4: when an earlier pass failed after the row of a newly discovered
\* document was created, a later incremental pass in which nothing fails
\* ends with all the sections of the document (Drizzle reconciler).
C4_LaterPassCompletesSections ==
    (DrizzleIncremental /\ status = "completed"
       /\ \A k \in 1..Len(outcome) : ~outcome[k].error) =>
        \A k \in 1..Len(sourceFiles) :
            DrizzleStorable(sourceFiles[k]) =>
                \E d \in documents :
                    /\ d.path = sourceFiles[k].path
                    /\ RowsOf(d.id) = Regenerated(d.id, sourceFiles[k])

\* The same for run() of the Prisma reconciler: a completed incremental run
\* has one row of Embedding for every section of every markdown file.
PrismaLaterRunCompletesEmbeddings ==
    (PrismaIncremental /\ status = "completed") =>
        \A k \in 1..Len(sourceFiles) :
            PrismaStorable(sourceFiles[k]) =>
                Cardinality({e \in Embedding : e.filePath = sourceFiles[k].path})
                    = Len(sourceFiles[k].sections)

\* C5: a document that is found with an equal checksum and an unchanged
\* parent is classified Unchanged: the pass never takes the branch of a
\* changed parent for it.
C5_UnchangedIsSkipped ==
    (impl = "drizzle" /\ pc = "selectParent") =>
        \E d \in documents :
            /\ d.id = docId
            /\ \/ d.checksum # currentSourceFile.checksum
               \/ d.parent_document_path # SqlValue(currentSourceFile.parent_document_path)

\* C6: an error while one document is reconciled does not abort the
\* incremental pass: the loop goes on with the lookup of the next document
\* and, after the last one, with the deletion sweep; the pass ends only
\* from the sweep.
C6_ErrorDoesNotAbort ==
    [][(DrizzleIncremental /\ status = "running") =>
          /\ (Len(outcome') = Len(outcome) + 1 /\ outcome'[Len(outcome')].error) =>
                /\ status' = "running"
                /\ idx' = idx + 1
                /\ pc' = IF idx < Len(sourceFiles) THEN "select" ELSE "cleanup"
          /\ status' # "running" => pc = "cleanup"]_vars

\* A completed incremental pass in which a document failed and the document
\* after it was reconciled without error.
C6_Witness ==
    /\ DrizzleIncremental
    /\ status = "completed"
    /\ \E k \in 1..(Len(outcome) - 1) : outcome[k].error /\ ~outcome[k + 1].error

\* C7: when a document fails in an incremental pass that completes,
\* core.setFailed is called.
C7_FailureIsReported ==
    (DrizzleIncremental /\ status = "completed"
       /\ \E k \in 1..Len(outcome) : outcome[k].error) => failed

\* C8: a parse error is fatal for its document only: generateSources still
\* produces every other document and the pass reconciles them.
C8_ParseErrorIsLocal ==
    [][(impl = "drizzle" /\ pc = "idle" /\ passes' = passes + 1) =>
          \A p \in ParsableFiles(files) :
              /\ status' = "running"
              /\ \E k \in 1..Len(sourceFiles') : sourceFiles'[k].path = p]_vars

\* C9: every row of document_sections and of Embedding holds the vector of
\* a successful embedding request for its content, in both modes and both
\* reconcilers.
C9_RowsFollowEmbedding ==
    /\ \A row \in BagToSet(documentSections) :
          /\ ReplaceNewlines(row.content) \in succeeded
          /\ row.embedding = embed(ReplaceNewlines(row.content)).embedding
    /\ \A e \in Embedding :
          /\ e.content \in succeeded
          /\ e.embedding = <<"embedding", e.content>>

\* The Prisma reconciler has written rows of Embedding in a run in which a
\* call failed.
C9_Witness ==
    /\ impl = "prisma"
    /\ Embedding # {}
    /\ faults > 0
    /\ requests > 0

\* C10: a document classified ParentOnly and processed without error has the
\* discovered parent as its persisted parent reference.
C10_ParentOnlySetsParent ==
    DrizzleIncremental =>
        \A k \in 1..Len(outcome) :
            (outcome[k].class = "ParentOnly" /\ ~outcome[k].error) =>
                \E d \in documents :
                    /\ d.path = sourceFiles[k].path
                    /\ d.parent_document_path = SqlValue(sourceFiles[k].parent_document_path)

\* The sources of the pass can all be stored: every section has a heading
\* and every parent is a discovered document.
Storable ==
    \A k \in 1..Len(sourceFiles) :
        /\ DrizzleStorable(sourceFiles[k])
        /\ \/ sourceFiles[k].parent_document_path = undefined
           \/ sourceFiles[k].parent_document_path \in DiscoveredPaths

\* The store holds exactly the discovered documents, each with exactly the
\* sections generated for it.
StoreIsDiscovered ==
    /\ {d.path : d \in documents} = DiscoveredPaths
    /\ \A k \in 1..Len(sourceFiles) :
          \E d \in documents :
              /\ d.path = sourceFiles[k].path
              /\ RowsOf(d.id) = Regenerated(d.id, sourceFiles[k])
    /\ \A r \in BagToSet(documentSections) : \E d \in documents : d.id = r.document_id

\* C11: a full refresh of the Drizzle reconciler that starts from any
\* reachable store and meets no failure completes, and the store then holds
\* exactly the discovered documents with the sections generated for them.
C11_RefreshRebuildsStore ==
    (impl = "drizzle" /\ shouldRefresh /\ pc = "idle" /\ passes > 0
       /\ faults = 0 /\ idx > 0 /\ Storable) =>
        status = "completed" /\ StoreIsDiscovered

\* C12: a full refresh that follows a completed full refresh over the same
\* discovered set completes too and leaves the same sections (ids aside).
C12_RefreshTwiceSameSections ==
    (impl = "drizzle" /\ shouldRefresh /\ pc = "idle" /\ faults = 0 /\ idx > 0
       /\ previous.refreshed /\ previous.sourceFiles = sourceFiles) =>
        status = "completed" /\ PersistedSections = previous.sections

\* The same for run() of the Prisma reconciler.
PrismaRefreshTwiceSameEmbeddings ==
    (impl = "prisma" /\ shouldRefresh /\ pc = "idle" /\ faults = 0 /\ idx > 0
       /\ previous.refreshed /\ previous.sourceFiles = sourceFiles) =>
        status = "completed" /\ PersistedSections = previous.sections

\* A second full refresh of the Prisma reconciler over a file with a section
\* has completed.
PrismaRefreshedTwice ==
    /\ impl = "prisma" /\ shouldRefresh /\ pc = "idle" /\ status = "completed"
    /\ previous.refreshed /\ previous.sourceFiles = sourceFiles
    /\ Embedding # {}

\* The statements of the loop of a full refresh, in both reconcilers.
RefreshLoopLabels ==
    {"refreshInsertDocument", "refreshEmbed", "refreshInsertSection",
     "refreshEmbedSections", "refreshCreateFile", "refreshCreateEmbeddings"}

\* A step adds a row to one of the four tables.
InsertsRow ==
    \/ \E d \in documents' : d \notin documents
    \/ \E r \in BagToSet(documentSections') : CopiesIn(r, documentSections') > CopiesIn(r, documentSections)
    \/ \E f \in File' : f \notin File
    \/ \E e \in Embedding' : e \notin Embedding

\* C13: in a full refresh no row is inserted until both delete-all
\* operations have completed: rows are inserted only by the statements of
\* the loop, and the loop is entered only from the second delete, with every
\* table empty.
C13_DeletesBeforeInserts ==
    [][((shouldRefresh /\ status = "running") \/ (shouldRefresh' /\ status' = "running")) =>
          /\ InsertsRow => pc \in RefreshLoopLabels
          /\ (pc' \in RefreshLoopLabels /\ pc \notin RefreshLoopLabels) =>
                /\ pc \in {"deleteAllSections", "deleteAllEmbeddings"}
                /\ documents' = {} /\ documentSections' = EmptyBag
                /\ File' = {} /\ Embedding' = {}
          /\ pc' \in {"deleteAllSections", "deleteAllEmbeddings"} =>
                /\ pc \in {"deleteAllDocuments", "deleteAllFiles"}
                /\ documents' = {} /\ File' = {}]_vars

\* A full refresh that found documents in the store is about to insert a
\* section.
C13_Witness ==
    /\ impl = "drizzle" /\ shouldRefresh /\ status = "running"
    /\ pc = "refreshInsertSection"
    /\ passes > 1
    /\ documents # {}

\* C14: in a full refresh an error at any step is fatal: the pass is
\* rejected there, core.setFailed is called, no later source file is
\* processed, and the rows committed before the error stay.
C14_RefreshErrorIsFatal ==
    [][(shouldRefresh /\ status = "running" /\ (faults' # faults \/ status' = "rejected")) =>
          /\ status' = "rejected" /\ failed' /\ pc' = "idle"
          /\ idx' = idx /\ outcome' = outcome
          /\ documents' = documents /\ documentSections' = documentSections
          /\ File' = File /\ Embedding' = Embedding]_vars

\* A full refresh was rejected after it had committed a document with its
\* section and before it reached its last source file.
C14_Witness ==
    /\ impl = "drizzle" /\ shouldRefresh /\ status = "rejected" /\ failed
    /\ documents # {} /\ documentSections # EmptyBag
    /\ idx < Len(sourceFiles)

\* C15: every persisted document with a parent reference refers to the path
\* of a persisted document, at the completion of a pass of the Drizzle
\* reconciler and in every state before it.
C15_ParentResolves ==
    \A d \in documents :
        d.parent_document_path # NULL =>
            \E parent \in documents : parent.path = d.parent_document_path

\* A completed pass has left a document with a parent reference, and
\* another pass has rejected the document whose parent is the ignored page.
C15_Witness ==
    /\ impl = "drizzle" /\ pc = "idle" /\ status = "completed"
    /\ \E d \in documents : d.parent_document_path # NULL
    /\ \E k \in 1..Len(outcome) :
          /\ outcome[k].error
          /\ sourceFiles[k].parent_document_path = Path404

\* The order of a pass: a discovered parent comes before each of its
\* children in sourceFiles, because walk sorts by path and "." sorts before
\* "/".  No pass reconciles a child before its parent.
ParentPrecedesChild ==
    (impl = "drizzle" /\ passes > 0) =>
        \A k \in 1..Len(sourceFiles) :
            \A j \in 1..Len(sourceFiles) :
                sourceFiles[j].path = sourceFiles[k].parent_document_path => j < k

\* The directories of a content directory strictly above path p and below
\* the root.
EnclosingDirectories(fs, p) ==
    {d \in {SubSeq(p, 1, k - 1) : k \in {j \in 1..Len(p) : p[j] = "/"}} : Under(Pages, d)}

\* The documents beside directory d that have its name: d.mdx and d.md.
SiblingDocuments(fs, d) == {q \in {d \o MdxExt, d \o MdExt} : isFile(fs, q)}

\* The sibling document of the nearest enclosing directory of p that has
\* one with one of the extensions, or undefined.
NearestSibling(fs, p, extensions) ==
    LET paired == {d \in EnclosingDirectories(fs, p) :
                     \E e \in extensions : isFile(fs, d \o e)}
    IN IF paired = {} THEN undefined
       ELSE LET d == CHOOSE c \in paired : \A b \in paired : Len(b) <= Len(c)
            IN IF isFile(fs, d \o MdxExt) /\ MdxExt \in extensions
               THEN d \o MdxExt ELSE d \o MdExt

\* C17: walk gives every file the sibling document X.md or X.mdx of its
\* nearest enclosing directory X as parentPath, at any depth, and no
\* parentPath exactly when no enclosing directory has such a sibling.
C17_ParentIsNearestSibling ==
    returned.done =>
        \A k \in 1..Len(returned.value) :
            returned.value[k].parentPath = NearestSibling(files, returned.value[k].path, {MdxExt, MdExt})

\* The same for the extension .mdx alone, which is what walk looks for.
ParentIsNearestMdxSibling ==
    returned.done =>
        \A k \in 1..Len(returned.value) :
            returned.value[k].parentPath = NearestSibling(files, returned.value[k].path, {MdxExt})

\* walk has given a file three directories deep the document of the
\* directory right above it, not the one of the directory above that.
NestedParentWalked ==
    /\ returned.done
    /\ \E k \in 1..Len(returned.value) : returned.value[k].path = PathGUX /\ returned.value[k].parentPath = PathGU
    /\ isFile(files, PathG)

\* C18: walk does not depend on the order in which readdir lists a
\* directory: in every order it returns the list it returns in the order of
\* the names, which has every regular file under the root exactly once and
\* is sorted ascending by path.
C18_WalkIsDeterministic ==
    returned.done =>
        /\ returned.value = walk(files, Pages, undefined)
        /\ {returned.value[k].path : k \in 1..Len(returned.value)} = ExistingFiles(files)
        /\ \A j \in 1..Len(returned.value) : \A k \in 1..Len(returned.value) :
              j < k => localeCompare(returned.value[j].path, returned.value[k].path) < 0

\* walk has returned four files or more of nested directories that readdir
\* listed in reverse and rotated.
C18_Witness ==
    /\ returned.done
    /\ called.reverse /\ called.shift > 0
    /\ Len(returned.value) >= 4
    /\ \E k \in 1..Len(returned.value) : returned.value[k].path = PathGUX
    /\ \E k \in 1..Len(returned.value) : returned.value[k].path = PathAB

\* C19: within one document no two sections have the same slug: a repeated
\* heading gets a numeric suffix.
C19_SlugsAreUnique ==
    returned.done =>
        \A j \in 1..Len(returned.value) : \A k \in 1..Len(returned.value) :
            (j < k /\ returned.value[j].slug # undefined /\ returned.value[k].slug # undefined)
                => returned.value[j].slug # returned.value[k].slug

\* The heading ends with an anchor, "[#" token "]", the token not empty.
HasAnchorSuffix(h) ==
    /\ Len(h) >= 4 /\ h[Len(h)] = "]"
    /\ \E k \in 1..(Len(h) - 3) : h[k] = "[" /\ h[k + 1] = "#"

\* The token of the anchor that ends the heading.
AnchorToken(h) ==
    LET opens == {k \in 1..(Len(h) - 3) : h[k] = "[" /\ h[k + 1] = "#"}
        open == CHOOSE k \in opens : \A l \in opens : l <= k
    IN SubSeq(h, open + 2, Len(h) - 1)

\* The slug a text gives by itself.
DerivedFrom(text) == IF slug(text) # <<>> THEN slug(text) ELSE Sanitize(text, FALSE)

\* C20: a heading that ends with an anchor "[#anchor]" gets the slug of the
\* anchor token; a heading without such a suffix gets the slug of the whole
\* heading text.
C20_SlugFromAnchorOrHeading ==
    returned.done =>
        \A tree \in {splitTreeBy(called)} :
            \A k \in 1..Len(tree) :
                (tree[k][1].type = "heading" /\ tree[k][1].text # <<>>) =>
                    returned.value[k].slug =
                        IF HasAnchorSuffix(tree[k][1].text)
                        THEN slug(AnchorToken(tree[k][1].text))
                        ELSE DerivedFrom(tree[k][1].text)

\* The first half alone: the slug of the anchor token for a heading that
\* ends with an anchor.
AnchorSuffixGivesSlug ==
    returned.done =>
        \A tree \in {splitTreeBy(called)} :
            \A k \in 1..Len(tree) :
                (tree[k][1].type = "heading" /\ HasAnchorSuffix(tree[k][1].text)) =>
                    returned.value[k].slug = slug(AnchorToken(tree[k][1].text))

\* The sections of a tree with the heading "A [#b]" have been produced.
AnchorSuffixProcessed ==
    /\ returned.done
    /\ \E k \in 1..Len(called) :
          called[k].type = "heading" /\ called[k].text = <<"A", " ", "[", "#", "b", "]">>

\* The last property of the object expression with the name.
LastProperty(properties, name) ==
    properties[CHOOSE k \in 1..Len(properties) :
                 /\ properties[k].key.name = name
                 /\ \A l \in 1..Len(properties) : properties[l].key.name = name => l <= k]

\* The names of the properties of the object expression.
PropertyNames(properties) == {properties[k].key.name : k \in 1..Len(properties)}

\* C21: every property of the meta object whose value is a literal is in the
\* extracted record with that value, false, 0, "" and null included, and
\* every property whose value is not a literal is left out.
C21_LiteralsAreExtracted ==
    returned.done =>
        /\ returned.value.defined
        /\ \A name \in PropertyNames(called.properties) :
              LET property == LastProperty(called.properties, name)
              IN IF property.value.type = "Literal"
                 THEN /\ name \in DOMAIN returned.value.object
                      /\ returned.value.object[name] = property.value.value
                 ELSE name \notin DOMAIN returned.value.object

\* The same for the literals whose value is truthy, and for what is not a
\* literal.
TruthyLiteralsAreExtracted ==
    returned.done =>
        /\ returned.value.defined
        /\ \A name \in PropertyNames(called.properties) :
              LET property == LastProperty(called.properties, name)
              IN IF property.value.type = "Literal" /\ property.value.value \in Truthy
                 THEN /\ name \in DOMAIN returned.value.object
                      /\ returned.value.object[name] = property.value.value
                 ELSE name \notin DOMAIN returned.value.object

\* C22: splitTreeBy with the heading predicate partitions the top-level
\* nodes: the trees concatenated are the input, no tree is empty, a heading
\* is always the first node of its tree, only the first tree may begin with
\* another node, and there is one section for each tree.
C22_SplitPartitions ==
    returned.done =>
        LET trees == splitTreeBy(called)
        IN /\ Flatten(trees) = called
           /\ \A k \in 1..Len(trees) :
                 /\ trees[k] # <<>>
                 /\ \A j \in 2..Len(trees[k]) : trees[k][j].type # "heading"
                 /\ k > 1 => trees[k][1].type = "heading"
           /\ Cardinality({k \in 1..Len(called) : called[k].type = "heading"})
                 = Cardinality({k \in 1..Len(trees) : trees[k][1].type = "heading"})
           /\ Len(returned.value) = Len(trees)

\* A tree of a paragraph, a heading and a paragraph has been split into its
\* two sections.
C22_Witness ==
    /\ returned.done
    /\ Len(called) = 3
    /\ called[1].type = "paragraph" /\ called[2].type = "heading" /\ called[3].type = "paragraph"
    /\ Len(returned.value) = 2

\* C23: when a document that begins with content before its first heading
\* is inserted or regenerated by the Drizzle reconciler, its preamble is
\* persisted as a section without heading and slug, with all the other
\* sections of the document.
C23_PreambleIsPersisted ==
    (impl = "drizzle" /\ passes > 0 /\ pc = "idle" /\ status = "completed" /\ faults = 0) =>
        \A k \in 1..Len(sourceFiles) :
            (/\ k <= Len(outcome)
             /\ outcome[k].class \in {"Insert", "Changed"}
             /\ sourceFiles[k].sections # <<>>
             /\ sourceFiles[k].sections[1].heading = undefined
             /\ \/ sourceFiles[k].parent_document_path = undefined
                \/ sourceFiles[k].parent_document_path \in DiscoveredPaths) =>
                \E d \in documents :
                    /\ d.path = sourceFiles[k].path
                    /\ RowsOf(d.id) = Regenerated(d.id, sourceFiles[k])
                    /\ \E r \in BagToSet(documentSections) :
                          r.document_id = d.id /\ r.heading = NULL /\ r.slug = NULL

\* C24: when a pass of the Drizzle reconciler completes, the row of every
\* document it inserted, updated or found unchanged carries the pass's
\* refreshVersion in its version column.
C24_RowsCarryRefreshVersion ==
    (impl = "drizzle" /\ passes > 0 /\ pc = "idle" /\ status = "completed") =>
        \A k \in 1..Len(outcome) :
            ~outcome[k].error =>
                \A d \in documents :
                    d.path = outcome[k].path => d.version = refreshVersion

\* C25: when an incremental run of the Prisma reconciler completes, the
\* paths of File are the discovered paths and every row of Embedding
\* belongs to a discovered path.
C25_StoreFollowsDirectory ==
    (PrismaIncremental /\ pc = "idle" /\ status = "completed") =>
        /\ {f.filePath : f \in File} = DiscoveredPaths
        /\ \A e \in Embedding : e.filePath \in DiscoveredPaths

\* An incremental run has completed with a file in the store, after a file
\* that the run before had left with an embedding was removed from the
\* content directory.
C25_Witness ==
    /\ PrismaIncremental /\ pc = "idle" /\ status = "completed"
    /\ File # {}
    /\ \E e \in previous.sections : e.filePath \notin DiscoveredPaths

\* embedSections has made one request, with the texts of the sections in
\* the order of their slugs (an absent slug compared as the sort compares
\* it).
OneRequestInSlugOrder ==
    /\ ~returned.value.throws
    /\ Len(returned.value.requested) = 1
    /\ LET values == returned.value.requested[1]
           sorted == returned.value.sections
       IN /\ Len(values) = Len(Sections(called))
          /\ Len(sorted) = Len(values)
          /\ \A k \in 1..Len(values) : values[k] = sorted[k].content
          /\ \A j \in 1..Len(sorted) : \A k \in 1..Len(sorted) :
                j < k => localeCompare(SlugText(sorted[j]), SlugText(sorted[k])) <= 0
          /\ \A section \in {Sections(called)[k] : k \in 1..Len(Sections(called))} :
                \E k \in 1..Len(sorted) : sorted[k] = section

\* C26: for every section list that processMdxForSearch can produce,
\* sections without a slug and equal slugs included, embedSections makes
\* exactly one request with the texts of the sections in the order of their
\* slugs.
C26_OneRequestOrderedBySlug == returned.done => OneRequestInSlugOrder

\* The same when no section after the first lacks a slug.
OneRequestWhenLaterSlugsPresent ==
    (returned.done /\ \A k \in 2..Len(Sections(called)) : Sections(called)[k].slug # undefined)
        => OneRequestInSlugOrder

\* A step calls the gateway or writes to the store.
StoreOrGatewayStep ==
    requests' # requests \/ documents' # documents \/ documentSections' # documentSections

\* C27: within an incremental pass of the Drizzle reconciler the documents
\* are reconciled one after the other: the loop is at document idx exactly
\* when the idx - 1 documents before it are finished, every call of the
\* gateway and every write to the store in the loop is about that document,
\* the sweep begins only when every document is finished, and the pass ends
\* with every discovered path reconciled once, in the discovered order.
C27_SequentialPerPath ==
    [][(DrizzleIncremental /\ status = "running") =>
          /\ Len(outcome) = idx - 1
          /\ idx' # idx =>
                /\ idx' = idx + 1
                /\ Len(outcome') = Len(outcome) + 1
                /\ outcome'[Len(outcome')].path = sourceFiles[idx].path
          /\ (StoreOrGatewayStep /\ pc # "cleanup") =>
                /\ idx \in 1..Len(sourceFiles)
                /\ \A d \in documents' \ documents : d.path = sourceFiles[idx].path
                /\ \A d \in documents \ documents' : d.path = sourceFiles[idx].path
                /\ \A r \in BagToSet(documentSections') :
                      CopiesIn(r, documentSections') # CopiesIn(r, documentSections) =>
                          \E d \in documents' :
                              d.id = r.document_id /\ d.path = sourceFiles[idx].path
                /\ \A r \in BagToSet(documentSections) :
                      CopiesIn(r, documentSections') # CopiesIn(r, documentSections) =>
                          \E d \in documents :
                              d.id = r.document_id /\ d.path = sourceFiles[idx].path
          /\ (pc' = "cleanup" /\ pc # "cleanup") => Len(outcome') = Len(sourceFiles)
          /\ status' = "completed" =>
                /\ pc = "cleanup"
                /\ Len(outcome) = Len(sourceFiles)
                /\ \A k \in 1..Len(outcome) : outcome[k].path = sourceFiles[k].path
                /\ \A j \in 1..Len(outcome) : \A k \in 1..Len(outcome) :
                      j # k => outcome[j].path # outcome[k].path]_vars

\* An incremental pass over three documents has completed after it called
\* the gateway and wrote sections for more than one of them.
C27_Witness ==
    /\ DrizzleIncremental /\ pc = "idle" /\ status = "completed"
    /\ Len(outcome) = 3
    /\ requests >= 2
    /\ Cardinality({r.document_id : r \in BagToSet(documentSections)}) >= 2

\* The file the loop of run() is at is in the store with the hash it has in
\* the content directory, and the loop is at its comparison or at the update
\* that follows it.
AtUnchangedFile ==
    /\ PrismaIncremental /\ status = "running"
    /\ pc \in {"compareChecksum", "touchFile"}
    /\ \E f \in File : f.filePath = markdownFile.path /\ f.fileHash = markdownFile.checksum

\* C28: processing a file that is found with an equal hash changes only
\* latestRefresh and latestVersion of its row: its content, hash and tokens,
\* every row of Embedding and every other row of File stay, no embedding is
\* requested, and the loop goes on to the next file.
C28_UnchangedOnlyTouched ==
    [][AtUnchangedFile =>
          /\ requests' = requests
          /\ Embedding' = Embedding
          /\ Cardinality(File') = Cardinality(File)
          /\ \A f \in File :
                IF f.filePath = markdownFile.path
                THEN \E g \in File' :
                        /\ g.filePath = f.filePath /\ g.content = f.content
                        /\ g.fileHash = f.fileHash /\ g.tokens = f.tokens
                ELSE f \in File'
          /\ pc' \in {"touchFile", "compareChecksum", "deleteMissingFiles", "idle"}
          /\ pc' = "idle" => status' = "rejected"
          /\ idx' # idx =>
                \E g \in File' :
                    /\ g.filePath = markdownFile.path
                    /\ g.latestVersion = refreshVersion /\ g.latestRefresh = passes]_vars

\* An incremental run has completed in which a file with an embedding and
\* tokens was found unchanged while another file was in the store.
C28_Witness ==
    /\ PrismaIncremental /\ pc = "idle" /\ status = "completed"
    /\ Cardinality(File) = 2
    /\ \E k \in 1..Len(outcome) :
          /\ outcome[k].class = "Unchanged"
          /\ \E f \in File :
                f.filePath = outcome[k].path /\ f.tokens > 0 /\ f.latestVersion = refreshVersion
          /\ \E e \in Embedding : e.filePath = outcome[k].path

\* C29: run() of part_002 processes a file that is found with a different
\* hash without a store error, and leaves its File row with the new hash and
\* token count and its rows of Embedding equal to the newly embedded
\* sections.
C29_ChangedFileIsReplaced ==
    [][(impl = "part_002" /\ status = "running" /\ isFileFound /\ isFileChanged = "true"
          /\ faults' = 0) =>
          /\ status' = "running"
          /\ idx' # idx =>
                /\ \E f \in File' :
                      /\ f.filePath = markdownFile.path
                      /\ f.fileHash = markdownFile.checksum
                      /\ f.tokens = embedded.tokens
                /\ {e \in Embedding' : e.filePath = markdownFile.path}
                      = {EmbeddingRow(EmbeddingData(markdownFile.path, embedded)[k]) :
                           k \in 1..Len(embedded.embeddings)}]_vars

\* In run() of part_002 the deleteMany of the embeddings of a changed file
\* is never reached, whatever fails or not.
Part002NeverDeletesEmbeddings == impl = "part_002" => pc # "deleteEmbeddings"

\* C30: compareChecksum classifies every store, path and hash in exactly
\* one way and never throws: not found exactly when no row of File has the
\* path, found and unchanged exactly when the row's hash is the given hash,
\* found and changed exactly when it is another hash.
C30_ClassificationIsTotal ==
    returned.done =>
        LET existing == {f \in called.rows : f.filePath = called.filePath}
            notFound == ~returned.value.isFileFound /\ returned.value.isFileChanged = "null"
            unchanged == returned.value.isFileFound /\ returned.value.isFileChanged = "false"
            changed == returned.value.isFileFound /\ returned.value.isFileChanged = "true"
        IN /\ ~returned.value.throws
           /\ notFound <=> existing = {}
           /\ unchanged <=> \E f \in existing : f.fileHash = called.hash
           /\ changed <=> \E f \in existing : f.fileHash # called.hash
           /\ Cardinality({o \in {"notFound", "unchanged", "changed"} :
                             \/ o = "notFound" /\ notFound
                             \/ o = "unchanged" /\ unchanged
                             \/ o = "changed" /\ changed}) = 1

\* compareChecksum has found a file changed whose new hash is the hash of
\* the other file of the store.
C30_Witness ==
    /\ returned.done
    /\ returned.value.isFileFound /\ returned.value.isFileChanged = "true"
    /\ \E f \in called.rows : f.filePath # called.filePath /\ f.fileHash = called.hash

\* In a run of either Prisma reconciler the answer that the loop acts on is
\* the classification of the current file against the store.
ClassificationInRun ==
    (impl \in {"prisma", "part_002"} /\ pc \in {"touchFile", "createFile", "deleteEmbeddings"}) =>
        LET existing == {f \in File : f.filePath = markdownFile.path}
        IN /\ isFileFound <=> existing # {}
           /\ isFileChanged = "false" <=> \E f \in existing : f.fileHash = markdownFile.checksum
           /\ isFileChanged = "true" <=> \E f \in existing : f.fileHash # markdownFile.checksum

\* C31: every section of processMdxForSearch has a heading if and only if it
\* has a slug, and it has both exactly when its first node is a heading, an
\* empty one included; only a first section that begins with another node
\* has neither.
C31_HeadingIffSlug ==
    returned.done =>
        LET trees == splitTreeBy(called)
        IN \A k \in 1..Len(returned.value) :
              /\ returned.value[k].heading # undefined <=> returned.value[k].slug # undefined
              /\ returned.value[k].heading # undefined <=> trees[k][1].type = "heading"
              /\ returned.value[k].heading = undefined =>
                    k = 1 /\ trees[k][1].type # "heading"

\* The same for the sections whose first node is not a heading without
\* text.
HeadingIffSlugUnlessEmpty ==
    returned.done =>
        LET trees == splitTreeBy(called)
        IN \A k \in 1..Len(returned.value) :
              ~(trees[k][1].type = "heading" /\ trees[k][1].text = <<>>) =>
                  /\ returned.value[k].heading # undefined <=> returned.value[k].slug # undefined
                  /\ returned.value[k].heading # undefined <=> trees[k][1].type = "heading"
                  /\ returned.value[k].heading = undefined =>
                        k = 1 /\ trees[k][1].type # "heading"

\* C32: in the list that walk returns, every file with a parentPath comes
\* after the file of that path, when that file is one of the content
\* directory.
C32_ParentComesFirst ==
    returned.done =>
        \A k \in 1..Len(returned.value) :
            (/\ returned.value[k].parentPath # undefined
             /\ isFile(files, returned.value[k].parentPath)) =>
                \E j \in 1..(k - 1) : returned.value[j].path = returned.value[k].parentPath

\* walk has returned, from directories listed in reverse, a file under its
\* own parent document and a file that inherits the parent document of the
\* directory above.
C32_Witness ==
    /\ returned.done
    /\ called.reverse
    /\ \E k \in 1..Len(returned.value) :
          returned.value[k].path = PathGUX /\ returned.value[k].parentPath = PathGU
    /\ \E k \in 1..Len(returned.value) :
          returned.value[k].path = PathGAB /\ returned.value[k].parentPath = PathG

\* C33: after run() of part_001 has inserted or regenerated a file without
\* error, the rows of Embedding of the file have the chunk indexes 0..n-1,
\* each once (n the number of its sections), each row holds the content of a
\* section of the file, and its vector is the gateway's output for that
\* content.
C33_ChunksAreNumbered ==
    (impl = "prisma" /\ passes > 0) =>
        \A k \in 1..Len(outcome) :
            outcome[k].class \in {"Insert", "Changed"} =>
                LET rows == {e \in Embedding : e.filePath = outcome[k].path}
                    sections == sourceFiles[k].sections
                IN /\ {e.chunkIndex : e \in rows} = 0..(Len(sections) - 1)
                   /\ Cardinality(rows) = Len(sections)
                   /\ \A e \in rows :
                         /\ \E n \in 1..Len(sections) : sections[n].content = e.content
                         /\ e.embedding = embedMany(<<e.content>>).embeddings[1]

\* A run has completed in which a file was regenerated and another file was
\* inserted, each with its embedding.
C33_Witness ==
    /\ impl = "prisma" /\ pc = "idle" /\ status = "completed"
    /\ \E j \in 1..Len(outcome) : \E k \in 1..Len(outcome) :
          /\ outcome[j].class = "Changed" /\ outcome[k].class = "Insert"
          /\ \E e \in Embedding : e.filePath = outcome[j].path
          /\ \E e \in Embedding : e.filePath = outcome[k].path

\* C34: in the Prisma variant, whenever run() has returned, completed or
\* aborted by an error of the store or of the gateway at any step, the
\* filePath of every Embedding row is the filePath of a File row: there
\* are no orphan embeddings.
C34_NoOrphanEmbeddings ==
    (impl = "prisma" /\ pc = "idle" /\ passes > 0) =>
        \A e \in Embedding : \E f \in File : f.filePath = e.filePath

\* The same statement for the runs that completed: it is the abort between
\* the deletion of the File rows and the deletion of the Embedding rows
\* that leaves the orphans.
NoOrphanEmbeddingsWhenCompleted ==
    (impl = "prisma" /\ pc = "idle" /\ passes > 0 /\ status = "completed") =>
        \A e \in Embedding : \E f \in File : f.filePath = e.filePath

\* C35: in the incremental mode of the Drizzle reconciler the cleanup at the
\* end of the pass deletes no document whose path is in the discovered set
\* of the pass and none of the sections of such a document, and every
\* document the pass inserted, updated or found unchanged is persisted when
\* the pass completes.
C35_CleanupKeepsDiscovered ==
    [][(DrizzleIncremental /\ pc = "cleanup") =>
          LET discovered == {d \in documents : d.path \in DiscoveredPaths}
          IN /\ discovered \subseteq documents'
             /\ \A d \in discovered : RowsOf(d.id)' = RowsOf(d.id)
             /\ status' = "completed" =>
                   \A k \in 1..Len(outcome) :
                      (\/ outcome[k].class = "Insert" /\ ~outcome[k].error
                       \/ outcome[k].class \in {"Changed", "Unchanged", "ParentOnly"}) =>
                         \E d \in documents' : d.path = outcome[k].path]_vars

\* An incremental pass has completed, its cleanup included, in which a
\* document was inserted with its sections and another one was found; both
\* are stored.
C35_Witness ==
    /\ DrizzleIncremental /\ pc = "idle" /\ status = "completed"
    /\ \E j \in 1..Len(outcome) : \E k \in 1..Len(outcome) :
          /\ outcome[j].class = "Insert" /\ ~outcome[j].error
          /\ outcome[k].class \in {"Changed", "Unchanged", "ParentOnly"}
          /\ \E d \in documents :
                /\ d.path = outcome[j].path
                /\ RowsOf(d.id) # EmptyBag
          /\ \E d \in documents : d.path = outcome[k].path
====
